---- MODULE Spec2Model ----
(***************************************************************************)
(* Time-bound access grants and the daily status-report lifecycle of the   *)
(* project-management backend, as a state machine over the grant table,    *)
(* the permission-request table, the notification collection, the EOD      *)
(* report table and its EODTask rows.                                      *)
(*                                                                         *)
(* Time is a count of instants.  A local day holds TicksPerDay instants:   *)
(* the first stands for the time from 00:00:00 on, with the finalizer's    *)
(* 00:01 and the warner's 09:00, the last for 23:59:00 to 23:59:59.999,    *)
(* with the forcer's 23:59.  Any number of calls may run at one instant,   *)
(* in any order.                                                           *)
(***************************************************************************)
EXTENDS Integers, Sequences, FiniteSets, Bags, TLC

\* ---------------------------------------------------------------- bounds
TicksPerDay == 2
MaxTime == 2
MaxPermissions == 2
MaxRequests == 2
MaxRevokeNotices == 1
MaxReports == 2
\* Grant and review calls in flight at once.
MaxCalls == 2

\* ------------------------------------------------------- program constants
DefaultDurationDays == 7
WarningDays == 3
MaxProgress == 100

\* ----------------------------------------------------------------- users
Developers == {"d1", "d2"}
Users == Developers \cup {"m1", "g1", "t1"}
Projects == {"p1"}
None == "none"
NoDate == -1

\* The absent progress of a task entry.
NoProgress == -1

UserRole == {"MANAGER", "GROUP_HEAD", "TEAM_LEAD", "DEVELOPER"}

RoleOf(u) ==
  CASE u = "m1" -> "MANAGER"
    [] u = "g1" -> "GROUP_HEAD"
    [] u = "t1" -> "TEAM_LEAD"
    [] OTHER -> "DEVELOPER"

VARIABLES now, permissions, requests, notifications, reports, eodTasks,
          cronRan, response, faults, calls, reminders

grantVars == <<permissions, requests, notifications>>
reportVars == <<reports, eodTasks>>
vars == <<now, permissions, requests, notifications, reports, eodTasks,
          cronRan, response, faults, calls, reminders>>

\* faults: what the environment makes fail -- sink: Notification.create
\* throws; saves: the reports whose save() throws.  calls: the handler and
\* job invocations that have read but not yet written.  reminders: the
\* EODReminder rows.
NoFaults == [sink |-> FALSE, saves |-> {}]

\* ------------------------------------------------------------------ time
\* The day count added as instants (setTime for setDate).
AddDaysAsInstants(t, d) == t + d

AddDays(t, d) == t + d * TicksPerDay

\* ------------------------------------------------------- notification sink
Notification(type, recipientId, relatedId) ==
  [type |-> type, recipientId |-> recipientId, relatedId |-> relatedId,
   createdAt |-> IF type \in {"PERMISSION_EXPIRING", "EOD_REMINDER"}
                 THEN now ELSE NoDate]

\* Every Notification.create sits in a try/catch that logs and goes on.
Notify(ns) ==
  notifications' = IF faults.sink THEN notifications
                   ELSE notifications (+) SetToBag(ns)

\* The catch that turns a failed notification into an error answer.
AfterNotifyRethrown(kind) == IF faults.sink THEN "Error" ELSE kind

\* try { ... Notification.create ... } catch (err) { console.error(...) }
\* followed by the handler's answer: the answer does not depend on the sink.
AfterNotify(kind) == kind

NoticeCount(type) ==
  BagCardinality([n \in {m \in BagToSet(notifications) : m.type = type}
                    |-> notifications[n]])

\* ------------------------------------------------------------ grant table
\* TemporaryPermission.findOne({userId, projectId, isActive: true,
\*                              expiresAt: {$gt: now}})
\* The filter without its expiresAt condition.
ActivePermissionsFlagOnly(perms, userId, projectId, t) ==
  {i \in DOMAIN perms :
     /\ perms[i].userId = userId
     /\ perms[i].projectId = projectId
     /\ perms[i].isActive}

ActivePermissions(perms, userId, projectId, t) ==
  {i \in DOMAIN perms :
     /\ perms[i].userId = userId
     /\ perms[i].projectId = projectId
     /\ perms[i].isActive
     /\ perms[i].expiresAt > t}

Min(S) == CHOOSE x \in S : \A y \in S : x <= y

\* The lookup with the comparison of expiresAt turned around ($lt for $gt).
FindActivePermissionLt(perms, userId, projectId, t) ==
  IF {i \in DOMAIN perms : perms[i].userId = userId
                              /\ perms[i].projectId = projectId
                              /\ perms[i].isActive /\ perms[i].expiresAt < t} = {}
  THEN 0
  ELSE Min({i \in DOMAIN perms : perms[i].userId = userId
                                    /\ perms[i].projectId = projectId
                                    /\ perms[i].isActive
                                    /\ perms[i].expiresAt < t})

FindActivePermission(perms, userId, projectId, t) ==
  IF ActivePermissions(perms, userId, projectId, t) = {} THEN 0
  ELSE Min(ActivePermissions(perms, userId, projectId, t))

\* The role test that lets team leads through.
IsAdminOrLead(role) == role \in {"MANAGER", "GROUP_HEAD", "TEAM_LEAD"}

IsAdmin(role) == role \in {"MANAGER", "GROUP_HEAD"}

RespondWith(op, kind, detail) ==
  response' = [op |-> op, kind |-> kind, detail |-> detail]

Respond(op, kind) == RespondWith(op, kind, {})

\* ------------------------------------------------- AccessDecisionEvaluator
\* The developer path without the isActive filter.
canAssignTasksAnyRow(userId, userRole, targetProjectId) ==
  IF userRole \in {"MANAGER", "GROUP_HEAD", "TEAM_LEAD"} THEN "Allowed"
  ELSE IF userRole = "DEVELOPER"
       THEN IF \E i \in DOMAIN permissions :
                 /\ permissions[i].userId = userId
                 /\ permissions[i].projectId = targetProjectId
                 /\ permissions[i].expiresAt > now
            THEN "Allowed"
            ELSE "NoPermission"
       ELSE "InsufficientPermissions"

\* The developer path without the expiresAt filter.
canAssignTasksNoExpiry(userId, userRole, targetProjectId) ==
  IF userRole \in {"MANAGER", "GROUP_HEAD", "TEAM_LEAD"} THEN "Allowed"
  ELSE IF userRole = "DEVELOPER"
       THEN IF \E i \in DOMAIN permissions :
                 /\ permissions[i].userId = userId
                 /\ permissions[i].projectId = targetProjectId
                 /\ permissions[i].isActive
            THEN "Allowed"
            ELSE "NoPermission"
       ELSE "InsufficientPermissions"

canAssignTasks(userId, userRole, targetProjectId) ==
  IF userRole \in {"MANAGER", "GROUP_HEAD", "TEAM_LEAD"} THEN "Allowed"
  ELSE IF userRole = "DEVELOPER"
       THEN IF FindActivePermission(permissions, userId, targetProjectId, now) # 0
            THEN "Allowed"
            ELSE "NoPermission"
       ELSE "InsufficientPermissions"

canAssignTaskToUser(userId, userRole, targetProjectId, targetUserRole) ==
  IF targetUserRole # "DEVELOPER" THEN "InvalidTarget"
  ELSE canAssignTasks(userId, userRole, targetProjectId)

EvaluateAssignAccess(userId, userRole, targetProjectId, targetUserRole) ==
  /\ Respond("evaluate",
             canAssignTaskToUser(userId, userRole, targetProjectId, targetUserRole))
  /\ UNCHANGED <<now, reminders, faults, calls, grantVars, reportVars, cronRan>>

\* --------------------------------------------------------- AccessGrantStore
\* The test that lets an expiry at the very instant of the call through.
NotInFutureLt(expiresAt) == expiresAt < now
\* if (expiresAt <= new Date())
NotInFuture(expiresAt) == expiresAt <= now

GrantExpiry(durationDays, customExpiryDate) ==
  IF customExpiryDate # NoDate THEN customExpiryDate
  ELSE AddDays(now, IF durationDays = 0 THEN DefaultDurationDays
                    ELSE durationDays)

\* The update that only ever extends a grant.
UpdatedPermissionExtend(row, expiresAt, grantorId, reason) ==
  [row EXCEPT !.expiresAt = IF expiresAt > @ THEN expiresAt ELSE @,
              !.grantedBy = grantorId, !.reason = reason]

UpdatedPermission(row, expiresAt, grantorId, reason) ==
  [row EXCEPT !.expiresAt = expiresAt, !.grantedBy = grantorId,
              !.reason = reason]

NewPermission(userId, projectId, grantorId, expiresAt, reason) ==
  [userId |-> userId, projectId |-> projectId, grantedBy |-> grantorId,
   expiresAt |-> expiresAt, isActive |-> TRUE, reason |-> reason]

grantTemporaryPermission(grantorId, userId, projectId, durationDays, customExpiryDate, reason) ==
  LET expiresAt == GrantExpiry(durationDays, customExpiryDate)
      existing == FindActivePermission(permissions, userId, projectId, now)
  IN
  /\ UNCHANGED <<now, reminders, faults, calls, requests, reportVars, cronRan>>
  /\ IF ~IsAdmin(RoleOf(grantorId))
     THEN Respond("grant", "Forbidden") /\ UNCHANGED <<permissions, notifications>>
     ELSE IF RoleOf(userId) # "DEVELOPER"
     THEN Respond("grant", "InvalidTarget") /\ UNCHANGED <<permissions, notifications>>
     ELSE IF customExpiryDate # NoDate /\ NotInFuture(expiresAt)
     THEN Respond("grant", "InvalidExpiry") /\ UNCHANGED <<permissions, notifications>>
     ELSE IF existing # 0
     THEN /\ permissions' =
               [permissions EXCEPT ![existing] =
                  UpdatedPermission(@, expiresAt, grantorId, reason)]
          /\ UNCHANGED notifications
          /\ Respond("grant", "Updated")
     ELSE /\ Len(permissions) < MaxPermissions
          /\ permissions' =
               Append(permissions,
                      NewPermission(userId, projectId, grantorId, expiresAt, reason))
          /\ Notify({Notification("PERMISSION_GRANTED", userId,
                                  Len(permissions) + 1)})
          /\ Respond("grant", AfterNotify("Created"))

\* The revocation that flips isActive instead of clearing it.
revokeTemporaryPermissionToggle(revokerId, id) ==
  /\ UNCHANGED <<now, reminders, faults, calls, requests, reportVars, cronRan>>
  /\ IF ~IsAdmin(RoleOf(revokerId))
     THEN Respond("revoke", "Forbidden") /\ UNCHANGED <<permissions, notifications>>
     ELSE IF id \notin DOMAIN permissions
     THEN Respond("revoke", "NotFound") /\ UNCHANGED <<permissions, notifications>>
     ELSE /\ NoticeCount("PERMISSION_REVOKED") < MaxRevokeNotices
          /\ permissions' = [permissions EXCEPT ![id].isActive = ~@]
          /\ Notify({Notification("PERMISSION_REVOKED", permissions[id].userId, id)})
          /\ Respond("revoke", AfterNotify("OK"))

\* The revocation that also ends the grant's term.
revokeTemporaryPermissionEndTerm(revokerId, id) ==
  /\ UNCHANGED <<now, reminders, faults, calls, requests, reportVars, cronRan>>
  /\ IF ~IsAdmin(RoleOf(revokerId))
     THEN Respond("revoke", "Forbidden") /\ UNCHANGED <<permissions, notifications>>
     ELSE IF id \notin DOMAIN permissions
     THEN Respond("revoke", "NotFound") /\ UNCHANGED <<permissions, notifications>>
     ELSE /\ NoticeCount("PERMISSION_REVOKED") < MaxRevokeNotices
          /\ permissions' = [permissions EXCEPT ![id].isActive = FALSE,
                                                ![id].expiresAt = now]
          /\ Notify({Notification("PERMISSION_REVOKED", permissions[id].userId, id)})
          /\ Respond("revoke", AfterNotify("OK"))

revokeTemporaryPermission(revokerId, id) ==
  /\ UNCHANGED <<now, reminders, faults, calls, requests, reportVars, cronRan>>
  /\ IF ~IsAdmin(RoleOf(revokerId))
     THEN Respond("revoke", "Forbidden") /\ UNCHANGED <<permissions, notifications>>
     ELSE IF id \notin DOMAIN permissions
     THEN Respond("revoke", "NotFound") /\ UNCHANGED <<permissions, notifications>>
     ELSE /\ NoticeCount("PERMISSION_REVOKED") < MaxRevokeNotices
          /\ permissions' = [permissions EXCEPT ![id].isActive = FALSE]
          /\ Notify({Notification("PERMISSION_REVOKED", permissions[id].userId, id)})
          /\ Respond("revoke", AfterNotify("OK"))

\* ------------------------------------------------ PermissionRequestWorkflow
\* The lookup with the wrong status constant.
PendingRequestsApproved(reqs, requesterId, projectId) ==
  {i \in DOMAIN reqs :
     /\ reqs[i].requestedBy = requesterId
     /\ reqs[i].projectId = projectId
     /\ reqs[i].status = "APPROVED"}

PendingRequests(reqs, requesterId, projectId) ==
  {i \in DOMAIN reqs :
     /\ reqs[i].requestedBy = requesterId
     /\ reqs[i].projectId = projectId
     /\ reqs[i].status = "PENDING"}

NewRequest(requesterId, projectId, requestedDurationDays, reason) ==
  [requestedBy |-> requesterId, projectId |-> projectId,
   requestedDurationDays |-> requestedDurationDays, reason |-> reason,
   status |-> "PENDING", reviewedBy |-> None, reviewedAt |-> NoDate,
   reviewNotes |-> None]

Admins == {u \in Users : IsAdmin(RoleOf(u))}

createPermissionRequest(requesterId, projectId, requestedDurationDays, reason) ==
  /\ UNCHANGED <<now, reminders, faults, calls, permissions, reportVars, cronRan>>
  /\ IF RoleOf(requesterId) # "DEVELOPER"
     THEN Respond("request", "Forbidden") /\ UNCHANGED <<requests, notifications>>
     ELSE IF PendingRequests(requests, requesterId, projectId) # {}
     THEN Respond("request", "AlreadyPending")
          /\ UNCHANGED <<requests, notifications>>
     ELSE IF FindActivePermission(permissions, requesterId, projectId, now) # 0
     THEN Respond("request", "AlreadyGranted")
          /\ UNCHANGED <<requests, notifications>>
     ELSE /\ Len(requests) < MaxRequests
          /\ requests' =
               Append(requests,
                      NewRequest(requesterId, projectId, requestedDurationDays,
                                 reason))
          /\ Notify({Notification("PERMISSION_REQUESTED", a, Len(requests) + 1) :
                       a \in Admins})
          /\ Respond("request", AfterNotify("Created"))

\* The status check that lets every request through.
AlreadyReviewedNever(row) == FALSE

\* if (request.status !== PermissionRequestStatus.PENDING)
AlreadyReviewed(row) == row.status # "PENDING"

ReviewedRequest(row, status, reviewerId, reviewNotes) ==
  [row EXCEPT !.status = status, !.reviewedBy = reviewerId,
              !.reviewedAt = now,
              !.reviewNotes = IF reviewNotes # None THEN reviewNotes ELSE @]

ApprovedReason(reason) == "Approved request: " \o reason

reviewPermissionRequest(reviewerId, id, status, reviewNotes) ==
  /\ UNCHANGED <<now, reminders, faults, calls, reportVars, cronRan>>
  /\ IF ~IsAdmin(RoleOf(reviewerId))
     THEN Respond("review", "Forbidden") /\ UNCHANGED grantVars
     ELSE IF id \notin DOMAIN requests
     THEN Respond("review", "NotFound") /\ UNCHANGED grantVars
     ELSE IF AlreadyReviewed(requests[id])
     THEN Respond("review", "AlreadyReviewed") /\ UNCHANGED grantVars
     ELSE IF RoleOf(requests[id].requestedBy) # "DEVELOPER"
     THEN Respond("review", "RoleMismatch") /\ UNCHANGED grantVars
     ELSE
       LET request == requests[id]
           expiresAt == AddDays(now, request.requestedDurationDays)
           existing == FindActivePermission(permissions, request.requestedBy,
                                            request.projectId, now)
       IN
       /\ requests' =
            [requests EXCEPT ![id] =
               ReviewedRequest(@, status, reviewerId, reviewNotes)]
       /\ IF status = "APPROVED"
          THEN /\ IF existing = 0
                  THEN /\ Len(permissions) < MaxPermissions
                       /\ permissions' =
                            Append(permissions,
                                   NewPermission(request.requestedBy,
                                                 request.projectId, reviewerId,
                                                 expiresAt,
                                                 ApprovedReason(request.reason)))
                  ELSE UNCHANGED permissions
               /\ Notify({Notification("PERMISSION_APPROVED",
                                       request.requestedBy, id)})
          ELSE /\ UNCHANGED permissions
               /\ Notify({Notification("PERMISSION_REJECTED",
                                       request.requestedBy, id)})
       /\ Respond("review", AfterNotify(status))

\* ------------------------------------------------------- GrantExpirySweeper
\* The query without its isActive filter.
ExpiredPermissionsAnyFlag(perms, t) ==
  {i \in DOMAIN perms : perms[i].expiresAt <= t}

ExpiredPermissions(perms, t) ==
  {i \in DOMAIN perms : perms[i].isActive /\ perms[i].expiresAt <= t}

expirePermissions ==
  /\ Notify({Notification("PERMISSION_EXPIRED", permissions[i].userId, i) :
               i \in ExpiredPermissions(permissions, now)})
  /\ permissions' =
       [i \in DOMAIN permissions |->
          IF i \in ExpiredPermissions(permissions, now)
          THEN [permissions[i] EXCEPT !.isActive = FALSE]
          ELSE permissions[i]]
  /\ Respond("expire",
             IF ExpiredPermissions(permissions, now) = {} THEN "Nothing" ELSE "Expired")
  /\ UNCHANGED <<now, reminders, faults, calls, requests, reportVars>>

\* ------------------------------------------------------- GrantExpiryWarner
\* Rows expiring within the warning window that have no PERMISSION_EXPIRING
\* notice of the last 24 hours.
ExpiringPermissions(perms, t) ==
  {i \in DOMAIN perms :
     /\ perms[i].isActive
     /\ perms[i].expiresAt >= t
     /\ perms[i].expiresAt <= AddDays(t, WarningDays)}

\* The dedupe lookup that never finds a notice.
RecentlyWarnedNever(i) == FALSE

RecentlyWarned(i) ==
  \E n \in BagToSet(notifications) :
    /\ n.type = "PERMISSION_EXPIRING"
    /\ n.recipientId = permissions[i].userId
    /\ n.relatedId = i
    /\ n.createdAt >= AddDays(now, -1)

\* The response names the rows notified; notifiedCount is their number.
checkExpiringPermissions ==
  /\ Notify({Notification("PERMISSION_EXPIRING", permissions[i].userId, i) :
               i \in {j \in ExpiringPermissions(permissions, now) :
                        ~RecentlyWarned(j)}})
  /\ RespondWith("warn", "OK",
                 IF faults.sink THEN {}
                 ELSE {j \in ExpiringPermissions(permissions, now) :
                         ~RecentlyWarned(j)})
  /\ UNCHANGED <<now, reminders, faults, calls, permissions, requests, reportVars>>

\* ------------------------------------------------------------ report dates
\* The date left at the time of day it was given.
StartOfDayKeepTime(t) == t

\* setHours(0, 0, 0, 0): the first instant of the local day of t.
StartOfDay(t) == (t \div TicksPerDay) * TicksPerDay

\* setHours(23, 59, 59, 999): the last instant of the local day of t.
EndOfDay(t) == StartOfDay(t) + TicksPerDay - 1

\* The date check that refuses future dates only.
IsTodayOrEarlier(reportDate, today) == reportDate <= today

\* if (reportDate.getTime() !== today.getTime()) ... 400
IsToday(reportDate, today) == reportDate = today

\* ------------------------------------------------------------ report table
\* getAccessibleTaskIds: tasks assigned to the developer or in a project the
\* developer is a member of.  Task "k3" is in no such project.
getAccessibleTaskIds(userId) == {"k1", "k2"}

\* EODReport.findOne({userId, reportDate})
\* The lookup by user alone.
FindReportAnyDate(reps, userId, reportDate) ==
  IF {i \in DOMAIN reps : reps[i].userId = userId} = {} THEN 0
  ELSE Min({i \in DOMAIN reps : reps[i].userId = userId})

\* findOne({userId, reportDate})
FindReport(reps, userId, reportDate) ==
  IF {i \in DOMAIN reps : reps[i].userId = userId
                             /\ reps[i].reportDate = reportDate} = {}
  THEN 0
  ELSE Min({i \in DOMAIN reps : reps[i].userId = userId
                                   /\ reps[i].reportDate = reportDate})

\* The unique index on (userId, reportDate) refuses a second row.
UniqueIndexAllows(reps, row) ==
  \A i \in DOMAIN reps :
    ~(reps[i].userId = row.userId /\ reps[i].reportDate = row.reportDate)

NewReport(userId, reportDate, tasksCompleted, tasksInProgress, notes) ==
  [userId |-> userId, reportDate |-> reportDate, status |-> "DRAFT",
   isFinal |-> FALSE, submittedAt |-> NoDate, scheduledSubmitAt |-> NoDate,
   tasksCompleted |-> tasksCompleted, tasksInProgress |-> tasksInProgress,
   notes |-> notes]

\* A task list of a request body is absent, or a set of entries.
Absent == [given |-> FALSE, items |-> {}]
Given(items) == [given |-> TRUE, items |-> items]

\* A task entry of a request body: {taskId, status, progress?}.
Entry(taskId, status, progress) ==
  [taskId |-> taskId, status |-> status, progress |-> progress]

Done(k) == Entry(k, "COMPLETED", NoProgress)
InProgress(k) == Entry(k, "IN_PROGRESS", 50)

\* eodTaskSchema: progress, when present, is an integer of 0..100.
ValidTask(e) == e.progress = NoProgress \/ e.progress \in 0..MaxProgress

\* createEODReportSchema with its refinement: an entry of inProgressTasks
\* whose own status is IN_PROGRESS must carry a progress.
ValidDraftBody(body) ==
  /\ \A e \in body.completedTasks.items \cup body.inProgressTasks.items :
       ValidTask(e)
  /\ \A e \in body.inProgressTasks.items :
       e.status = "IN_PROGRESS" => e.progress # NoProgress

\* submitEODReportSchema has no refinement.
ValidSubmitBody(body) ==
  \A e \in body.completedTasks.items \cup body.inProgressTasks.items :
    ValidTask(e)

\* The ids of the completed list only.
TaskIdsOfCompleted(completedTasks, inProgressTasks) ==
  {e.taskId : e \in completedTasks.items}

TaskIdsOf(completedTasks, inProgressTasks) ==
  {e.taskId : e \in completedTasks.items}
    \cup {e.taskId : e \in inProgressTasks.items}

\* The rows that copy the progress an entry carries.
EODTaskRowsCarried(reportId, completedTasks, inProgressTasks) ==
  {[eodReportId |-> reportId, taskId |-> e.taskId, status |-> "COMPLETED",
    progress |-> e.progress] : e \in completedTasks.items}
    \cup
  {[eodReportId |-> reportId, taskId |-> e.taskId, status |-> "IN_PROGRESS",
    progress |-> e.progress] : e \in inProgressTasks.items}

\* progress: 100 for a completed entry, task.progress || 0 for one in
\* progress; the list decides the row's status, not the entry's own.
EODTaskRows(reportId, completedTasks, inProgressTasks) ==
  {[eodReportId |-> reportId, taskId |-> e.taskId, status |-> "COMPLETED",
    progress |-> MaxProgress] : e \in completedTasks.items}
    \cup
  {[eodReportId |-> reportId, taskId |-> e.taskId, status |-> "IN_PROGRESS",
    progress |-> IF e.progress = NoProgress THEN 0 ELSE e.progress] :
     e \in inProgressTasks.items}

\* deleteMany without its filter.
ReplaceEODTasksUnfiltered(rows, reportId, completedTasks, inProgressTasks) ==
  EODTaskRows(reportId, completedTasks, inProgressTasks)

\* EODTask.deleteMany({eodReportId}) followed by EODTask.insertMany(rows)
ReplaceEODTasks(rows, reportId, completedTasks, inProgressTasks) ==
  {r \in rows : r.eodReportId # reportId}
    \cup EODTaskRows(reportId, completedTasks, inProgressTasks)

\* ----------------------------------------------------- DailyReportLifecycle
\* body: [reportDate, completedTasks, inProgressTasks, notes]; reportDate
\* NoDate and notes None stand for omitted fields.  The create schema
\* defaults an omitted task list to the empty list, so the EODTask rows
\* are replaced on every successful call.
createOrUpdateEODReport(userId, body) ==
  LET reportDate == StartOfDay(IF body.reportDate # NoDate
                               THEN body.reportDate ELSE now)
      today == StartOfDay(now)
      invalidTaskIds == TaskIdsOf(body.completedTasks, body.inProgressTasks)
                          \ getAccessibleTaskIds(userId)
      existingReport == FindReport(reports, userId, reportDate)
      listsGiven == body.completedTasks.given \/ body.inProgressTasks.given
      created == NewReport(userId, reportDate,
                           Cardinality(body.completedTasks.items),
                           Cardinality(body.inProgressTasks.items),
                           body.notes)
      reportId == IF existingReport # 0 THEN existingReport
                  ELSE Len(reports) + 1
  IN
  /\ UNCHANGED <<now, reminders, faults, calls, grantVars, cronRan>>
  /\ IF ~ValidDraftBody(body)
     THEN Respond("draft", "ValidationError") /\ UNCHANGED reportVars
     ELSE IF RoleOf(userId) # "DEVELOPER"
     THEN Respond("draft", "Forbidden") /\ UNCHANGED reportVars
     ELSE IF ~IsToday(reportDate, today)
     THEN Respond("draft", "WrongDate") /\ UNCHANGED reportVars
     ELSE IF invalidTaskIds # {}
     THEN RespondWith("draft", "TaskNotAccessible", invalidTaskIds)
          /\ UNCHANGED reportVars
     ELSE IF existingReport # 0 /\ reports[existingReport].isFinal
     THEN Respond("draft", "ReportFinal") /\ UNCHANGED reportVars
     ELSE IF existingReport = 0 /\ ~UniqueIndexAllows(reports, created)
     THEN Respond("draft", "DuplicateKey") /\ UNCHANGED reportVars
     ELSE /\ IF existingReport # 0
             THEN reports' =
                    [reports EXCEPT ![existingReport] =
                       [@ EXCEPT
                          !.notes = IF body.notes # None THEN body.notes ELSE @,
                          !.tasksCompleted =
                             IF listsGiven
                             THEN Cardinality(body.completedTasks.items) ELSE @,
                          !.tasksInProgress =
                             IF listsGiven
                             THEN Cardinality(body.inProgressTasks.items) ELSE @]]
             ELSE /\ Len(reports) < MaxReports
                  /\ reports' = Append(reports, created)
          /\ eodTasks' = ReplaceEODTasks(eodTasks, reportId,
                                         body.completedTasks,
                                         body.inProgressTasks)
          /\ Respond("draft", "OK")

\* body: [reportDate, completedTasks, inProgressTasks, notes, submitNow,
\* scheduledSubmitAt].  A missing report is inserted as an empty DRAFT before
\* anything else is checked; the EODTask rows are replaced as soon as the
\* task ids are validated; all other changes reach the table with the final
\* save only.
submitEODReport(userId, body) ==
  LET reportDate == StartOfDay(IF body.reportDate # NoDate
                               THEN body.reportDate ELSE now)
      today == StartOfDay(now)
      found == FindReport(reports, userId, reportDate)
      created == NewReport(userId, reportDate, 0, 0, None)
      inserted == IF found = 0 THEN Append(reports, created) ELSE reports
      reportId == IF found # 0 THEN found ELSE Len(reports) + 1
      listsGiven == body.completedTasks.given \/ body.inProgressTasks.given
      invalidTaskIds == TaskIdsOf(body.completedTasks, body.inProgressTasks)
                          \ getAccessibleTaskIds(userId)
      replaced == IF listsGiven
                  THEN ReplaceEODTasks(eodTasks, reportId, body.completedTasks,
                                       body.inProgressTasks)
                  ELSE eodTasks
      edited == IF listsGiven
                THEN [inserted[reportId] EXCEPT
                        !.tasksCompleted = Cardinality(body.completedTasks.items),
                        !.tasksInProgress = Cardinality(body.inProgressTasks.items),
                        !.notes = IF body.notes # None THEN body.notes ELSE @]
                ELSE inserted[reportId]
  IN
  /\ UNCHANGED <<now, reminders, faults, calls, grantVars, cronRan>>
  /\ IF ~ValidSubmitBody(body)
     THEN Respond("submit", "ValidationError") /\ UNCHANGED reportVars
     ELSE IF RoleOf(userId) # "DEVELOPER"
     THEN Respond("submit", "Forbidden") /\ UNCHANGED reportVars
     ELSE IF ~IsToday(reportDate, today)
     THEN Respond("submit", "WrongDate") /\ UNCHANGED reportVars
     ELSE IF found = 0 /\ ~UniqueIndexAllows(reports, created)
     THEN Respond("submit", "DuplicateKey") /\ UNCHANGED reportVars
     ELSE
       /\ found = 0 => Len(reports) < MaxReports
       /\ IF inserted[reportId].isFinal
          THEN /\ Respond("submit", "ReportFinal")
               /\ reports' = inserted /\ UNCHANGED eodTasks
          ELSE IF listsGiven /\ invalidTaskIds # {}
          THEN /\ RespondWith("submit", "TaskNotAccessible", invalidTaskIds)
               /\ reports' = inserted /\ UNCHANGED eodTasks
          ELSE IF body.submitNow
          THEN /\ reports' =
                    [inserted EXCEPT ![reportId] =
                       [edited EXCEPT !.status = "SUBMITTED",
                                      !.submittedAt = now,
                                      !.scheduledSubmitAt = NoDate]]
               /\ eodTasks' = replaced
               /\ Respond("submit", "OK")
          ELSE IF body.scheduledSubmitAt = NoDate
          THEN /\ Respond("submit", "ScheduleRequired")
               /\ reports' = inserted /\ eodTasks' = replaced
          ELSE IF body.scheduledSubmitAt <= now
          THEN /\ Respond("submit", "ScheduleNotFuture")
               /\ reports' = inserted /\ eodTasks' = replaced
          ELSE IF body.scheduledSubmitAt > EndOfDay(now)
          THEN /\ Respond("submit", "ScheduleTooLate")
               /\ reports' = inserted /\ eodTasks' = replaced
          ELSE /\ reports' =
                    [inserted EXCEPT ![reportId] =
                       [edited EXCEPT
                          !.scheduledSubmitAt = body.scheduledSubmitAt]]
               /\ eodTasks' = replaced
               /\ Respond("submit", "Scheduled")

\* ------------------------------------------------------- SubmissionScheduler
\* The promotion that forgets the status.
SubmittedKeepsStatus(row) == [row EXCEPT !.submittedAt = now]

\* for (const report of selected) { ...; await report.save() } inside the
\* job's single try: the rows saved are those found before the first row
\* whose save throws (find returns the rows in insertion order).
SavedBefore(selected) ==
  {i \in selected : \A j \in selected \cap faults.saves : i < j}

\* What the job logs: the caught error, or the rows it went through.
Outcome(selected, done) ==
  IF selected \cap faults.saves # {} THEN "Failed"
  ELSE IF selected = {} THEN "Nothing" ELSE done

Submitted(row) ==
  [row EXCEPT !.status = "SUBMITTED", !.submittedAt = now,
              !.scheduledSubmitAt = NoDate]

\* The query with $gte for $lte.
ScheduledReportsGte(reps, t) ==
  {i \in DOMAIN reps :
     /\ reps[i].scheduledSubmitAt # NoDate
     /\ reps[i].scheduledSubmitAt >= t
     /\ reps[i].status = "DRAFT"
     /\ ~reps[i].isFinal}

\* find({scheduledSubmitAt: {$lte: now}, status: DRAFT, isFinal: false}); a
\* row without scheduledSubmitAt does not match $lte.
ScheduledReports(reps, t) ==
  {i \in DOMAIN reps :
     /\ reps[i].scheduledSubmitAt # NoDate
     /\ reps[i].scheduledSubmitAt <= t
     /\ reps[i].status = "DRAFT"
     /\ ~reps[i].isFinal}

processScheduledSubmissions ==
  /\ reports' = [i \in DOMAIN reports |->
                   IF i \in SavedBefore(ScheduledReports(reports, now))
                   THEN Submitted(reports[i]) ELSE reports[i]]
  /\ Respond("sweep", Outcome(ScheduledReports(reports, now), "Submitted"))
  /\ UNCHANGED <<now, reminders, faults, calls, grantVars, eodTasks>>

\* ----------------------------------------------------------- EndOfDayForcer
DraftReportsOfDay(reps, from, to) ==
  {i \in DOMAIN reps :
     /\ reps[i].reportDate >= from
     /\ reps[i].reportDate < to
     /\ reps[i].status = "DRAFT"
     /\ ~reps[i].isFinal}

autoSubmitDraftsAtEndOfDay ==
  LET today == StartOfDay(now)
      tomorrow == AddDays(today, 1)
  IN
  /\ reports' = [i \in DOMAIN reports |->
                   IF i \in SavedBefore(DraftReportsOfDay(reports, today, tomorrow))
                   THEN Submitted(reports[i]) ELSE reports[i]]
  /\ Respond("force",
             Outcome(DraftReportsOfDay(reports, today, tomorrow), "Submitted"))
  /\ UNCHANGED <<now, reminders, faults, calls, grantVars, eodTasks>>

\* ------------------------------------------------------------ DayFinalizer
\* The query without its status condition.
ReportsToFinalizeAnyStatus(reps, from, to) ==
  {i \in DOMAIN reps :
     /\ reps[i].reportDate >= from
     /\ reps[i].reportDate < to
     /\ ~reps[i].isFinal}

\* find({reportDate: {$gte: yesterday, $lt: today}, status: SUBMITTED,
\* isFinal: false})
ReportsToFinalize(reps, from, to) ==
  {i \in DOMAIN reps :
     /\ reps[i].reportDate >= from
     /\ reps[i].reportDate < to
     /\ reps[i].status = "SUBMITTED"
     /\ ~reps[i].isFinal}

finalizeReportsAtMidnight ==
  LET today == StartOfDay(now)
      yesterday == AddDays(today, -1)
  IN
  /\ reports' = [i \in DOMAIN reports |->
                   IF i \in SavedBefore(ReportsToFinalize(reports, yesterday, today))
                   THEN [reports[i] EXCEPT !.isFinal = TRUE] ELSE reports[i]]
  /\ Respond("finalize",
             Outcome(ReportsToFinalize(reports, yesterday, today), "Finalized"))
  /\ UNCHANGED <<now, reminders, faults, calls, grantVars, eodTasks>>

\* ------------------------------------------------------------ environment
\* The notification sink starts to fail.
SinkFails ==
  /\ ~faults.sink
  /\ faults' = [faults EXCEPT !.sink = TRUE]
  /\ Respond("fault", "Sink")
  /\ UNCHANGED <<now, grantVars, reportVars, reminders, cronRan, calls>>

\* The save of report i starts to throw.
SaveFails(i) ==
  /\ i \in DOMAIN reports
  /\ i \notin faults.saves
  /\ faults' = [faults EXCEPT !.saves = @ \cup {i}]
  /\ Respond("fault", "Save")
  /\ UNCHANGED <<now, grantVars, reportVars, reminders, cronRan, calls>>

\* ------------------------------------------------------------ EODReminder
\* The users with a SUBMITTED report dated in [from, to).
SubmittedUserIds(reps, from, to) ==
  {reps[i].userId : i \in {j \in DOMAIN reps : /\ reps[j].reportDate >= from
                                               /\ reps[j].reportDate < to
                                               /\ reps[j].status = "SUBMITTED"}}

\* The test that never finds a reminder.
AlreadyRemindedNever(userId, today) == FALSE
\* EODReminder.findOne({userId, reminderDate: today})
AlreadyReminded(userId, today) ==
  \E r \in reminders : r.userId = userId /\ r.reminderDate = today

\* One run of the reminder job. Neither create of the loop has a catch of
\* its own: when the sink throws, the run ends in the function's catch
\* after the reminder row of the developer it had reached.
sendEODReminders ==
  LET today == StartOfDay(now)
      tomorrow == AddDays(today, 1)
      developersWithoutEOD ==
        {u \in Users : RoleOf(u) = "DEVELOPER"}
          \ SubmittedUserIds(reports, today, tomorrow)
      due == {u \in developersWithoutEOD : ~AlreadyReminded(u, today)}
      Row(u) == [userId |-> u, reminderDate |-> today, sentAt |-> now]
  IN
  /\ UNCHANGED <<now, faults, calls, permissions, requests, reportVars>>
  /\ IF faults.sink /\ due # {}
     THEN /\ \E u \in due : reminders' = reminders \cup {Row(u)}
          /\ UNCHANGED notifications
          /\ Respond("remind", "Failed")
     ELSE /\ reminders' = reminders \cup {Row(u) : u \in due}
          /\ notifications' =
               notifications (+) SetToBag({Notification("EOD_REMINDER", u, 0) :
                                             u \in due})
          /\ RespondWith("remind", "OK", due)

\* ------------------------------------------------------- calls in steps
\* A handler or job between two of its awaits: the call's position (pc) and
\* the locals it holds. id is the row the call works on (0: none), at the
\* instant or expiry it computed, rows what its find returned and left the
\* rows it has still to notify.
Call(op, pc, caller, id, at, rows, userId, projectId, reason) ==
  [op |-> op, pc |-> pc, caller |-> caller, id |-> id, at |-> at, rows |-> rows,
   left |-> rows, userId |-> userId, projectId |-> projectId, reason |-> reason]

InFlight(op) == {c \in calls : c.op = op}

\* expirePermissions up to its find: now is read once and the expired
\* active rows are loaded. One scheduler runs the job, one run at a time.
ExpireFind ==
  /\ InFlight("expire") = {}
  /\ calls' = calls \cup
       {Call("expire", "notify", "cron", 0, now,
             ExpiredPermissions(permissions, now), None, None, None)}
  /\ UNCHANGED <<now, reminders, faults, grantVars, reportVars, cronRan, response>>

\* One pass of the notification loop: the next loaded row is told.
ExpireNotify(c) ==
  /\ c \in InFlight("expire") /\ c.left # {}
  /\ LET i == CHOOSE j \in c.left : \A k \in c.left : j <= k
     IN /\ Notify({Notification("PERMISSION_EXPIRED", permissions[i].userId, i)})
        /\ calls' = (calls \ {c}) \cup {[c EXCEPT !.left = @ \ {i}]}
  /\ UNCHANGED <<now, reminders, faults, permissions, requests, reportVars,
               cronRan, response>>

\* The closing updateMany: the filter is evaluated again, on the table as
\* it is now, with the instant read at the start.
ExpireUpdate(c) ==
  /\ c \in InFlight("expire") /\ c.left = {}
  /\ permissions' =
       [i \in DOMAIN permissions |->
          IF i \in ExpiredPermissions(permissions, c.at)
          THEN [permissions[i] EXCEPT !.isActive = FALSE]
          ELSE permissions[i]]
  /\ calls' = calls \ {c}
  /\ Respond("expire",
             IF ExpiredPermissions(permissions, c.at) = {}
             THEN "Nothing" ELSE "Expired")
  /\ UNCHANGED <<now, reminders, faults, requests, notifications, reportVars, cronRan>>

\* revokeTemporaryPermission up to findById: the role check, then the load.
RevokeFind(revokerId, id) ==
  /\ UNCHANGED <<now, reminders, faults, grantVars, reportVars, cronRan>>
  /\ IF ~IsAdmin(RoleOf(revokerId))
     THEN Respond("revoke", "Forbidden") /\ UNCHANGED calls
     ELSE IF id \notin DOMAIN permissions
     THEN Respond("revoke", "NotFound") /\ UNCHANGED calls
     ELSE /\ NoticeCount("PERMISSION_REVOKED") + Cardinality(InFlight("revoke"))
               < MaxRevokeNotices
          /\ calls' = calls \cup
               {Call("revoke", "save", revokerId, id, now, {},
                     permissions[id].userId, permissions[id].projectId, None)}
          /\ UNCHANGED response

\* permission.isActive = false on the loaded document.
RevokedToggle(row) == [row EXCEPT !.isActive = ~@]
Revoked(row) == [row EXCEPT !.isActive = FALSE]

\* permission.save(): the changed path is written to the stored row.
RevokeSave(c) ==
  /\ c \in InFlight("revoke") /\ c.pc = "save"
  /\ permissions' = [permissions EXCEPT ![c.id] = Revoked(@)]
  /\ calls' = (calls \ {c}) \cup {[c EXCEPT !.pc = "notify"]}
  /\ UNCHANGED <<now, reminders, faults, requests, notifications, reportVars,
               cronRan, response>>

\* The notification in its try/catch and the answer.
RevokeNotify(c) ==
  /\ c \in InFlight("revoke") /\ c.pc = "notify"
  /\ Notify({Notification("PERMISSION_REVOKED", permissions[c.id].userId, c.id)})
  /\ calls' = calls \ {c}
  /\ Respond("revoke", AfterNotify("OK"))
  /\ UNCHANGED <<now, reminders, faults, permissions, requests, reportVars, cronRan>>

\* grantTemporaryPermission up to its findOne: the checks, the expiry and
\* the lookup of an active, unexpired row of the pair.
GrantLookup(grantorId, userId, projectId, durationDays, customExpiryDate, reason) ==
  LET expiresAt == GrantExpiry(durationDays, customExpiryDate)
      existing == FindActivePermission(permissions, userId, projectId, now)
  IN
  /\ UNCHANGED <<now, reminders, faults, grantVars, reportVars, cronRan>>
  /\ IF ~IsAdmin(RoleOf(grantorId))
     THEN Respond("grant", "Forbidden") /\ UNCHANGED calls
     ELSE IF RoleOf(userId) # "DEVELOPER"
     THEN Respond("grant", "InvalidTarget") /\ UNCHANGED calls
     ELSE IF customExpiryDate # NoDate /\ NotInFuture(expiresAt)
     THEN Respond("grant", "InvalidExpiry") /\ UNCHANGED calls
     ELSE /\ Cardinality(calls) < MaxCalls
          /\ calls' = calls \cup
               {Call("grant", "write", grantorId, 0, expiresAt,
                     {existing} \ {0}, userId, projectId, reason)}
          /\ UNCHANGED response

\* The rest of the call: the save of the row found, or of a new row with
\* its notification, and the answer.
GrantWrite(c) ==
  /\ c \in InFlight("grant")
  /\ calls' = calls \ {c}
  /\ UNCHANGED <<now, reminders, faults, requests, reportVars, cronRan>>
  /\ IF c.rows # {}
     THEN /\ permissions' =
               [i \in DOMAIN permissions |->
                  IF i \in c.rows
                  THEN UpdatedPermission(permissions[i], c.at, c.caller, c.reason)
                  ELSE permissions[i]]
          /\ UNCHANGED notifications
          /\ Respond("grant", "Updated")
     ELSE /\ Len(permissions) < MaxPermissions
          /\ permissions' =
               Append(permissions,
                      NewPermission(c.userId, c.projectId, c.caller, c.at, c.reason))
          /\ Notify({Notification("PERMISSION_GRANTED", c.userId,
                                  Len(permissions) + 1)})
          /\ Respond("grant", AfterNotify("Created"))

\* reviewPermissionRequest(APPROVED) up to request.save(): the checks and
\* the saved decision.
ApproveSave(reviewerId, id) ==
  /\ UNCHANGED <<now, reminders, faults, permissions, notifications, reportVars, cronRan>>
  /\ IF ~IsAdmin(RoleOf(reviewerId))
     THEN Respond("review", "Forbidden") /\ UNCHANGED <<requests, calls>>
     ELSE IF id \notin DOMAIN requests
     THEN Respond("review", "NotFound") /\ UNCHANGED <<requests, calls>>
     ELSE IF AlreadyReviewed(requests[id])
     THEN Respond("review", "AlreadyReviewed") /\ UNCHANGED <<requests, calls>>
     ELSE IF RoleOf(requests[id].requestedBy) # "DEVELOPER"
     THEN Respond("review", "RoleMismatch") /\ UNCHANGED <<requests, calls>>
     ELSE /\ Cardinality(calls) < MaxCalls
          /\ requests' =
               [requests EXCEPT ![id] = ReviewedRequest(@, "APPROVED", reviewerId, None)]
          /\ calls' = calls \cup
               {Call("review", "lookup", reviewerId, id,
                     AddDays(now, requests[id].requestedDurationDays), {},
                     requests[id].requestedBy, requests[id].projectId,
                     ApprovedReason(requests[id].reason))}
          /\ UNCHANGED response

\* The approval's own findOne ("shouldn't, but just in case").
ApproveLookup(c) ==
  /\ c \in InFlight("review") /\ c.pc = "lookup"
  /\ calls' = (calls \ {c}) \cup
       {[c EXCEPT !.pc = "write",
                  !.rows = {FindActivePermission(permissions, c.userId,
                                                 c.projectId, now)} \ {0}]}
  /\ UNCHANGED <<now, reminders, faults, grantVars, reportVars, cronRan, response>>

\* The insert when the lookup found nothing, the notification, the answer.
ApproveWrite(c) ==
  /\ c \in InFlight("review") /\ c.pc = "write"
  /\ calls' = calls \ {c}
  /\ IF c.rows = {}
     THEN /\ Len(permissions) < MaxPermissions
          /\ permissions' =
               Append(permissions,
                      NewPermission(c.userId, c.projectId, c.caller, c.at, c.reason))
     ELSE UNCHANGED permissions
  /\ Notify({Notification("PERMISSION_APPROVED", c.userId, c.id)})
  /\ Respond("review", AfterNotify("APPROVED"))
  /\ UNCHANGED <<now, reminders, faults, requests, reportVars, cronRan>>

\* A report handler between its findOne and its save: id is the row it
\* loaded (0: none), date the day it computed, body what it was sent.
ReportCall(op, caller, id, date, body) ==
  [op |-> op, pc |-> "write", caller |-> caller, id |-> id, date |-> date,
   body |-> body]

\* createOrUpdateEODReport up to its findOne and the isFinal test on the
\* document it loaded. One call of a user is in flight at a time.
DraftRead(userId, body) ==
  LET reportDate == StartOfDay(IF body.reportDate # NoDate
                               THEN body.reportDate ELSE now)
      today == StartOfDay(now)
      invalidTaskIds == TaskIdsOf(body.completedTasks, body.inProgressTasks)
                          \ getAccessibleTaskIds(userId)
      existingReport == FindReport(reports, userId, reportDate)
  IN
  /\ {c \in calls : c.caller = userId} = {}
  /\ UNCHANGED <<now, reminders, faults, grantVars, reportVars, cronRan>>
  /\ IF ~ValidDraftBody(body)
     THEN Respond("draft", "ValidationError") /\ UNCHANGED calls
     ELSE IF RoleOf(userId) # "DEVELOPER"
     THEN Respond("draft", "Forbidden") /\ UNCHANGED calls
     ELSE IF ~IsToday(reportDate, today)
     THEN Respond("draft", "WrongDate") /\ UNCHANGED calls
     ELSE IF invalidTaskIds # {}
     THEN RespondWith("draft", "TaskNotAccessible", invalidTaskIds)
          /\ UNCHANGED calls
     ELSE IF existingReport # 0 /\ reports[existingReport].isFinal
     THEN Respond("draft", "ReportFinal") /\ UNCHANGED calls
     ELSE /\ calls' = calls \cup
               {ReportCall("draft", userId, existingReport, reportDate, body)}
          /\ UNCHANGED response

\* The rest of the call: save() writes the fields the handler assigned to
\* the stored row (or inserts the new report), the task rows are replaced
\* and the call answers.
DraftWrite(c) ==
  LET body == c.body
      listsGiven == body.completedTasks.given \/ body.inProgressTasks.given
      created == NewReport(c.caller, c.date,
                           Cardinality(body.completedTasks.items),
                           Cardinality(body.inProgressTasks.items),
                           body.notes)
      reportId == IF c.id # 0 THEN c.id ELSE Len(reports) + 1
  IN
  /\ c \in InFlight("draft")
  /\ calls' = calls \ {c}
  /\ UNCHANGED <<now, reminders, faults, grantVars, cronRan>>
  /\ IF c.id = 0 /\ ~UniqueIndexAllows(reports, created)
     THEN Respond("draft", "DuplicateKey") /\ UNCHANGED reportVars
     ELSE /\ IF c.id # 0
             THEN reports' =
                    [reports EXCEPT ![c.id] =
                       [@ EXCEPT
                          !.notes = IF body.notes # None THEN body.notes ELSE @,
                          !.tasksCompleted =
                             IF listsGiven
                             THEN Cardinality(body.completedTasks.items) ELSE @,
                          !.tasksInProgress =
                             IF listsGiven
                             THEN Cardinality(body.inProgressTasks.items) ELSE @]]
             ELSE /\ Len(reports) < MaxReports
                  /\ reports' = Append(reports, created)
          /\ eodTasks' = ReplaceEODTasks(eodTasks, reportId,
                                         body.completedTasks,
                                         body.inProgressTasks)
          /\ Respond("draft", "OK")

\* submitEODReport up to the isFinal test and the task check on the
\* document it loaded, or created as a DRAFT when there was none.
SubmitRead(userId, body) ==
  LET reportDate == StartOfDay(IF body.reportDate # NoDate
                               THEN body.reportDate ELSE now)
      today == StartOfDay(now)
      found == FindReport(reports, userId, reportDate)
      created == NewReport(userId, reportDate, 0, 0, None)
      inserted == IF found = 0 THEN Append(reports, created) ELSE reports
      reportId == IF found # 0 THEN found ELSE Len(reports) + 1
      listsGiven == body.completedTasks.given \/ body.inProgressTasks.given
      invalidTaskIds == TaskIdsOf(body.completedTasks, body.inProgressTasks)
                          \ getAccessibleTaskIds(userId)
  IN
  /\ {c \in calls : c.caller = userId} = {}
  /\ UNCHANGED <<now, reminders, faults, grantVars, eodTasks, cronRan>>
  /\ IF ~ValidSubmitBody(body)
     THEN Respond("submit", "ValidationError") /\ UNCHANGED <<reports, calls>>
     ELSE IF RoleOf(userId) # "DEVELOPER"
     THEN Respond("submit", "Forbidden") /\ UNCHANGED <<reports, calls>>
     ELSE IF ~IsToday(reportDate, today)
     THEN Respond("submit", "WrongDate") /\ UNCHANGED <<reports, calls>>
     ELSE IF found = 0 /\ ~UniqueIndexAllows(reports, created)
     THEN Respond("submit", "DuplicateKey") /\ UNCHANGED <<reports, calls>>
     ELSE
       /\ found = 0 => Len(reports) < MaxReports
       /\ reports' = inserted
       /\ IF inserted[reportId].isFinal
          THEN Respond("submit", "ReportFinal") /\ UNCHANGED calls
          ELSE IF listsGiven /\ invalidTaskIds # {}
          THEN RespondWith("submit", "TaskNotAccessible", invalidTaskIds)
               /\ UNCHANGED calls
          ELSE /\ calls' = calls \cup
                    {ReportCall("submit", userId, reportId, reportDate, body)}
               /\ UNCHANGED response

\* The rest of the call: the task rows are replaced, the schedule is
\* checked against the clock as it is by then, and save() writes the
\* fields the handler assigned to the stored row.
SubmitWrite(c) ==
  LET body == c.body
      listsGiven == body.completedTasks.given \/ body.inProgressTasks.given
      replaced == IF listsGiven
                  THEN ReplaceEODTasks(eodTasks, c.id, body.completedTasks,
                                       body.inProgressTasks)
                  ELSE eodTasks
      edited == IF listsGiven
                THEN [reports[c.id] EXCEPT
                        !.tasksCompleted = Cardinality(body.completedTasks.items),
                        !.tasksInProgress = Cardinality(body.inProgressTasks.items),
                        !.notes = IF body.notes # None THEN body.notes ELSE @]
                ELSE reports[c.id]
  IN
  /\ c \in InFlight("submit")
  /\ calls' = calls \ {c}
  /\ eodTasks' = replaced
  /\ UNCHANGED <<now, reminders, faults, grantVars, cronRan>>
  /\ IF body.submitNow
     THEN /\ reports' = [reports EXCEPT ![c.id] = Submitted(edited)]
          /\ Respond("submit", "OK")
     ELSE IF body.scheduledSubmitAt = NoDate
     THEN Respond("submit", "ScheduleRequired") /\ UNCHANGED reports
     ELSE IF body.scheduledSubmitAt <= now
     THEN Respond("submit", "ScheduleNotFuture") /\ UNCHANGED reports
     ELSE IF body.scheduledSubmitAt > EndOfDay(now)
     THEN Respond("submit", "ScheduleTooLate") /\ UNCHANGED reports
     ELSE /\ reports' =
               [reports EXCEPT ![c.id] =
                  [edited EXCEPT !.scheduledSubmitAt = body.scheduledSubmitAt]]
          /\ Respond("submit", "Scheduled")

\* A review between two of its awaits: id is the request it loaded, status
\* the decision it was sent, at the expiry it computed and rows what its
\* findOne on the grant table returned.
ReviewCall(pc, caller, id, status) ==
  [op |-> "review", pc |-> pc, caller |-> caller, id |-> id,
   status |-> status, at |-> NoDate, rows |-> {}]

\* reviewPermissionRequest up to its checks on the request it loaded.
ReviewRead(reviewerId, id, status) ==
  /\ UNCHANGED <<now, reminders, faults, grantVars, reportVars, cronRan>>
  /\ IF ~IsAdmin(RoleOf(reviewerId))
     THEN Respond("review", "Forbidden") /\ UNCHANGED calls
     ELSE IF id \notin DOMAIN requests
     THEN Respond("review", "NotFound") /\ UNCHANGED calls
     ELSE IF AlreadyReviewed(requests[id])
     THEN Respond("review", "AlreadyReviewed") /\ UNCHANGED calls
     ELSE IF RoleOf(requests[id].requestedBy) # "DEVELOPER"
     THEN Respond("review", "RoleMismatch") /\ UNCHANGED calls
     ELSE /\ Cardinality(calls) < MaxCalls
          /\ calls' = calls \cup {ReviewCall("save", reviewerId, id, status)}
          /\ UNCHANGED response

\* request.save(): the decision, the reviewer and the time are written to
\* the stored request; a rejection then notifies and answers.
ReviewSave(c) ==
  /\ c \in InFlight("review") /\ c.pc = "save"
  /\ requests' =
       [requests EXCEPT ![c.id] = ReviewedRequest(@, c.status, c.caller, None)]
  /\ UNCHANGED <<now, reminders, faults, permissions, reportVars, cronRan>>
  /\ IF c.status = "APPROVED"
     THEN /\ calls' = (calls \ {c}) \cup {[c EXCEPT !.pc = "lookup"]}
          /\ UNCHANGED <<notifications, response>>
     ELSE /\ calls' = calls \ {c}
          /\ Notify({Notification("PERMISSION_REJECTED",
                                  requests[c.id].requestedBy, c.id)})
          /\ Respond("review", AfterNotify(c.status))

\* The approval's expiry and its findOne on the grant table.
ReviewLookup(c) ==
  /\ c \in InFlight("review") /\ c.pc = "lookup"
  /\ calls' = (calls \ {c}) \cup
       {[c EXCEPT !.pc = "write",
                  !.at = AddDays(now, requests[c.id].requestedDurationDays),
                  !.rows = {FindActivePermission(permissions,
                                                 requests[c.id].requestedBy,
                                                 requests[c.id].projectId,
                                                 now)} \ {0}]}
  /\ UNCHANGED <<now, reminders, faults, grantVars, reportVars, cronRan, response>>

\* The insert when the lookup found nothing, the notification, the answer.
ReviewWrite(c) ==
  /\ c \in InFlight("review") /\ c.pc = "write"
  /\ calls' = calls \ {c}
  /\ IF c.rows = {}
     THEN /\ Len(permissions) < MaxPermissions
          /\ permissions' =
               Append(permissions,
                      NewPermission(requests[c.id].requestedBy,
                                    requests[c.id].projectId, c.caller, c.at,
                                    ApprovedReason(requests[c.id].reason)))
     ELSE UNCHANGED permissions
  /\ Notify({Notification("PERMISSION_APPROVED", requests[c.id].requestedBy,
                          c.id)})
  /\ Respond("review", AfterNotify("APPROVED"))
  /\ UNCHANGED <<now, reminders, faults, requests, reportVars, cronRan>>

\* --------------------------------------------------------------- the clock
Tick ==
  /\ now < MaxTime
  /\ now' = now + 1
  /\ cronRan' = {}
  /\ Respond("tick", "OK")
  /\ UNCHANGED <<grantVars, reportVars, reminders, faults, calls>>

\* ----------------------------------------------------------- specification
Init ==
  /\ now = 0
  /\ permissions = <<>>
  /\ requests = <<>>
  /\ notifications = EmptyBag
  /\ reports = <<>>
  /\ eodTasks = {}
  /\ cronRan = {}
  /\ response = [op |-> "init", kind |-> "OK", detail |-> {}]
  /\ faults = NoFaults
  /\ calls = {}
  /\ reminders = {}

GrantStep(callers, users, expiries) ==
  \E g \in callers, u \in users, p \in Projects, e \in expiries :
    grantTemporaryPermission(g.id, u, p, e.durationDays, e.customExpiryDate,
                             g.reason)

RevokeStep(callers) ==
  \E g \in callers, id \in 1..MaxPermissions : revokeTemporaryPermission(g, id)

RequestStep(users) ==
  \E u \in users, p \in Projects : createPermissionRequest(u, p, 1, "r1")

ReviewStep(callers, decisions, notes) ==
  \E g \in callers, id \in 1..MaxRequests, st \in decisions, n \in notes :
    reviewPermissionRequest(g, id, st, n)

EvaluateStep ==
  \E u \in Developers, r \in UserRole, p \in Projects,
     tr \in {"DEVELOPER", "TEAM_LEAD"} :
    EvaluateAssignAccess(u, r, p, tr)

\* durationDays 0 stands for an omitted durationDays (the schema's default
\* applies); customExpiryDate NoDate for an omitted customExpiryDate.
OneDay == [durationDays |-> 1, customExpiryDate |-> NoDate]
Custom(t) == [durationDays |-> 0, customExpiryDate |-> t]

Default == [durationDays |-> 0, customExpiryDate |-> NoDate]
Manager == [id |-> "m1", reason |-> "r1"]
GroupHead == [id |-> "g1", reason |-> "r2"]
TeamLead == [id |-> "t1", reason |-> "r1"]

\* ------------------------------------------------------------- scheduling
\* A job function called directly, outside its schedule.
Called(job) == job /\ UNCHANGED cronRan

\* node-cron fires a job once at each instant its expression matches.
\* '* * * * *' (scheduled submissions) matches at every instant,
\* '59 23 * * *' (end-of-day forcer) at the last instant of a day and
\* '1 0 * * *' (finalizer) at the first.
ReportJobs(t) ==
  {"scheduled"}
    \cup (IF t % TicksPerDay = TicksPerDay - 1 THEN {"force"} ELSE {})
    \cup (IF t % TicksPerDay = 0 THEN {"finalize"} ELSE {})

\* '0 * * * *' (expiry sweep) matches at every instant but the last of a
\* day, which holds no full hour; '0 9 * * *' (expiry warner) at the first.
GrantJobs(t) ==
  (IF t % TicksPerDay # TicksPerDay - 1 THEN {"expire"} ELSE {})
    \cup (IF t % TicksPerDay = 0 THEN {"warn"} ELSE {})

Fired(due, name, job) ==
  /\ name \in due \ cronRan
  /\ job
  /\ cronRan' = cronRan \cup {name}

\* The clock of a server whose jobs all fire: an instant ends only after
\* every job due at it has run.
CronTick(due) == due \subseteq cronRan /\ Tick

\* One developer's grants with the request workflow.
NextGrant ==
  \/ Tick
  \/ GrantStep({Manager}, {"d1"}, {Custom(now + 1)})
  \/ RevokeStep({"m1"})
  \/ Called(expirePermissions)
  \/ RequestStep({"d1"})
  \/ ReviewStep({"g1"}, {"APPROVED"}, {None})

SpecGrant == Init /\ [][NextGrant]_vars

\* One developer's grants with the request workflow, revocation and both
\* grant jobs fired on schedule.
NextExpiry ==
  \/ CronTick(GrantJobs(now))
  \/ GrantStep({Manager}, {"d1"}, {Custom(now + 1)})
  \/ RevokeStep({"m1"})
  \/ Fired(GrantJobs(now), "expire", expirePermissions)
  \/ Fired(GrantJobs(now), "warn", checkExpiringPermissions)
  \/ RequestStep({"d1"})
  \/ ReviewStep({"g1"}, {"APPROVED"}, {None})

SpecExpiry == Init /\ [][NextExpiry]_vars

\* One developer's requests and their reviews, next to direct grants.
NextRequest ==
  \/ Tick
  \/ GrantStep({Manager}, {"d1"}, {Custom(now + 1)})
  \/ RequestStep({"d1"})
  \/ ReviewStep({"g1"}, {"APPROVED", "REJECTED"}, {None, "n1"})

SpecRequest == Init /\ [][NextRequest]_vars

\* Two developers' grants with the access decision.
NextAccess ==
  \/ Tick
  \/ GrantStep({Manager}, Developers, {Custom(now + 1)})
  \/ RevokeStep({"m1"})
  \/ Called(expirePermissions)
  \/ EvaluateStep

SpecAccess == Init /\ [][NextAccess]_vars

\* One developer's grants by two grantors with every form of expiry.
MergeExpiries == {OneDay, Default, Custom(now + 1)}

NextMerge ==
  \/ Tick
  \/ GrantStep({Manager, GroupHead}, {"d1"}, MergeExpiries)
  \/ RevokeStep({"m1"})
  \/ Called(expirePermissions)

SpecMerge == Init /\ [][NextMerge]_vars

\* A manager's grants with a duration, with none, and with a custom date
\* before, at and after the instant of the call.
FutureExpiries == {OneDay, Default} \cup {Custom(t) : t \in 0..(MaxTime + 1)}

NextFuture ==
  \/ Tick
  \/ GrantStep({Manager}, {"d1"}, FutureExpiries)
  \/ RevokeStep({"m1"})
  \/ Called(expirePermissions)

SpecFuture == Init /\ [][NextFuture]_vars

\* One developer's grants for a day or for the default week, with the
\* warner and the expiry sweep called at any time.
NextWarn ==
  \/ Tick
  \/ GrantStep({Manager}, {"d1"}, {OneDay, Default})
  \/ RevokeStep({"m1"})
  \/ Called(expirePermissions)
  \/ Called(checkExpiringPermissions)

SpecWarn == Init /\ [][NextWarn]_vars

\* The grant and request routes called by administrators and by callers of
\* other roles.
NextAuth ==
  \/ Tick
  \/ GrantStep({Manager, TeamLead}, {"d1"}, {Custom(now + 1)})
  \/ RevokeStep({"m1", "d2"})
  \/ RequestStep({"d1", "m1"})
  \/ ReviewStep({"g1", "t1"}, {"APPROVED"}, {None})

SpecAuth == Init /\ [][NextAuth]_vars

\* One developer's grants and requests at one instant, with a notification
\* sink that may start to fail at any point.
NextSink ==
  \/ SinkFails
  \/ GrantStep({Manager}, {"d1"}, {Custom(now + 1)})
  \/ RevokeStep({"m1"})
  \/ RequestStep({"d1"})
  \/ ReviewStep({"g1"}, {"APPROVED", "REJECTED"}, {None})

SpecSink == Init /\ [][NextSink]_vars

\* Request bodies of the report handlers.
DraftBodies(dates, completed, inProgress, notes) ==
  {[reportDate |-> d, completedTasks |-> c, inProgressTasks |-> p, notes |-> n] :
     d \in dates, c \in completed, p \in inProgress, n \in notes}

SubmitBodies(dates, completed, inProgress, notes, schedules) ==
  {[reportDate |-> d, completedTasks |-> c, inProgressTasks |-> p, notes |-> n,
    submitNow |-> sc.submitNow, scheduledSubmitAt |-> sc.scheduledSubmitAt] :
     d \in dates, c \in completed, p \in inProgress, n \in notes,
     sc \in schedules}

SubmitNow == [submitNow |-> TRUE, scheduledSubmitAt |-> NoDate]
ScheduleAt(t) == [submitNow |-> FALSE, scheduledSubmitAt |-> t]

DraftStep(users, bodies) ==
  \E u \in users, b \in bodies : createOrUpdateEODReport(u, b)

SubmitStep(users, bodies) ==
  \E u \in users, b \in bodies : submitEODReport(u, b)

Yesterday == AddDays(StartOfDay(now), -1)

\* The bodies one developer sends: for today (reportDate omitted) or for
\* yesterday, with or without a task list and notes.
ReportDraftBodies ==
  DraftBodies({NoDate, Yesterday}, {Absent, Given({Done("k1")})}, {Absent},
              {None, "n1"})

ReportSubmitBodies ==
  SubmitBodies({NoDate, Yesterday}, {Absent, Given({Done("k1")})}, {Absent},
               {None},
               {SubmitNow, ScheduleAt(now + 1)})

\* The report table with every sweep callable at any instant.
NextReport ==
  \/ Tick
  \/ DraftStep({"d1"}, ReportDraftBodies)
  \/ SubmitStep({"d1"}, ReportSubmitBodies)
  \/ Called(processScheduledSubmissions)
  \/ Called(autoSubmitDraftsAtEndOfDay)
  \/ Called(finalizeReportsAtMidnight)

SpecReport == Init /\ [][NextReport]_vars

\* The report table on a server whose jobs fire on schedule.
NextCron ==
  \/ CronTick(ReportJobs(now))
  \/ DraftStep({"d1"},
               DraftBodies({NoDate}, {Absent, Given({Done("k1")})}, {Absent}, {None}))
  \/ SubmitStep({"d1"},
                SubmitBodies({NoDate}, {Absent}, {Absent}, {None},
                             {SubmitNow, ScheduleAt(now + 1)}))
  \/ Fired(ReportJobs(now), "scheduled", processScheduledSubmissions)
  \/ Fired(ReportJobs(now), "force", autoSubmitDraftsAtEndOfDay)
  \/ Fired(ReportJobs(now), "finalize", finalizeReportsAtMidnight)

SpecCron == Init /\ [][NextCron]_vars

\* The bodies one developer sends for today with task lists that name
\* accessible tasks (k1, k2) and a task of a foreign project (k3).
TaskDraftBodies ==
  DraftBodies({NoDate},
              {Absent, Given({Done("k1")}), Given({Done("k3")}),
               Given({Done("k1"), Done("k3")})},
              {Absent, Given({InProgress("k2")}), Given({InProgress("k3")})},
              {None})

TaskSubmitBodies ==
  SubmitBodies({NoDate}, {Absent}, {Absent}, {None}, {SubmitNow})

NextTasks ==
  \/ Tick
  \/ DraftStep({"d1"}, TaskDraftBodies)
  \/ SubmitStep({"d1"}, TaskSubmitBodies)
  \/ Called(finalizeReportsAtMidnight)

SpecTasks == Init /\ [][NextTasks]_vars

\* The bodies one developer sends for today with entries that carry a
\* progress inside and outside 0..100, or none.
ProgressDraftBodies ==
  DraftBodies({NoDate},
              {Absent, Given({Entry("k1", "COMPLETED", 40)}),
               Given({Entry("k1", "COMPLETED", MaxProgress + 50)})},
              {Absent, Given({Entry("k2", "IN_PROGRESS", NoProgress)}),
               Given({Entry("k2", "COMPLETED", NoProgress)}),
               Given({Entry("k2", "IN_PROGRESS", MaxProgress)}),
               Given({Entry("k2", "IN_PROGRESS", MaxProgress + 1)})},
              {None})

ProgressSubmitBodies ==
  SubmitBodies({NoDate}, {Absent},
               {Absent, Given({Entry("k2", "IN_PROGRESS", NoProgress)}),
                Given({Entry("k2", "IN_PROGRESS", MaxProgress + 50)})},
               {None}, {SubmitNow})

NextProgress ==
  \/ Tick
  \/ DraftStep({"d1"}, ProgressDraftBodies)
  \/ SubmitStep({"d1"}, ProgressSubmitBodies)

SpecProgress == Init /\ [][NextProgress]_vars

\* Two developers' drafts and one grant, then saves and a sink that start
\* to fail, with every job called at any time.
NextFault ==
  \/ Tick
  \/ faults = NoFaults
       /\ DraftStep(Developers, DraftBodies({NoDate}, {Absent}, {Absent}, {None}))
  \/ faults = NoFaults /\ GrantStep({Manager}, {"d1"}, {Custom(now + 1)})
  \/ \E i \in 1..MaxReports : SaveFails(i)
  \/ SinkFails
  \/ Called(processScheduledSubmissions)
  \/ Called(autoSubmitDraftsAtEndOfDay)
  \/ Called(finalizeReportsAtMidnight)
  \/ Called(expirePermissions)
  \/ Called(checkExpiringPermissions)

SpecFault == Init /\ [][NextFault]_vars

\* The expiry job and a manager's revocations, each taken one await at a
\* time, over one developer's grants.
NextSweepRace ==
  \/ Tick
  \/ GrantStep({Manager}, {"d1"}, {Custom(now + 1)})
  \/ ExpireFind
  \/ \E c \in calls : ExpireNotify(c)
  \/ \E c \in calls : ExpireUpdate(c)
  \/ \E id \in 1..MaxPermissions : RevokeFind("m1", id)
  \/ \E c \in calls : RevokeSave(c)
  \/ \E c \in calls : RevokeNotify(c)

SpecSweepRace == Init /\ [][NextSweepRace]_vars

\* Two admins' grants and an approval for one developer at one instant,
\* each taken one await at a time.
NextGrantRace ==
  \/ \E g \in {Manager, GroupHead} :
       GrantLookup(g.id, "d1", "p1", 0, now + 1, g.reason)
  \/ \E c \in calls : GrantWrite(c)
  \/ RequestStep({"d1"})
  \/ \E id \in 1..MaxRequests : ApproveSave("g1", id)
  \/ \E c \in calls : ApproveLookup(c)
  \/ \E c \in calls : ApproveWrite(c)

SpecGrantRace == Init /\ [][NextGrantRace]_vars

\* One developer's draft saves and submits, each taken in two steps, with
\* every report sweep callable between them.
NextEditRace ==
  \/ Tick
  \/ \E b \in DraftBodies({NoDate}, {Absent}, {Absent}, {"n1"}) :
       DraftRead("d1", b)
  \/ \E c \in calls : DraftWrite(c)
  \/ \E b \in SubmitBodies({NoDate}, {Absent, Given({Done("k1")})}, {Absent},
                            {None}, {SubmitNow, ScheduleAt(now + 1)}) :
       SubmitRead("d1", b)
  \/ \E c \in calls : SubmitWrite(c)
  \/ Called(processScheduledSubmissions)
  \/ Called(autoSubmitDraftsAtEndOfDay)
  \/ Called(finalizeReportsAtMidnight)

SpecEditRace == Init /\ [][NextEditRace]_vars

\* One developer's requests with a manager approving and a group head
\* rejecting, each review taken one await at a time.
NextReviewRace ==
  \/ RequestStep({"d1"})
  \/ \E id \in 1..MaxRequests : ReviewRead("m1", id, "APPROVED")
  \/ \E id \in 1..MaxRequests : ReviewRead("g1", id, "REJECTED")
  \/ \E c \in calls : ReviewSave(c)
  \/ \E c \in calls : ReviewLookup(c)
  \/ \E c \in calls : ReviewWrite(c)

SpecReviewRace == Init /\ [][NextReviewRace]_vars

\* Two developers' draft saves and submits, with the reminder job called
\* at any time and a sink that may start to fail.
NextRemind ==
  \/ Tick
  \/ DraftStep(Developers, DraftBodies({NoDate}, {Absent}, {Absent}, {None}))
  \/ SubmitStep(Developers,
                SubmitBodies({NoDate}, {Absent}, {Absent}, {None}, {SubmitNow}))
  \/ SinkFails
  \/ Called(sendEODReminders)

SpecRemind == Init /\ [][NextRemind]_vars

\* =================================================================== claims
SamePair(a, b) == a.userId = b.userId /\ a.projectId = b.projectId

\* C1 -- Grant uniqueness: for every (userId, projectId), whatever grant,
\* approval, revoke and expiry-sweep calls have run and however the clock
\* has advanced, at most one TemporaryPermission row of the pair has
\* isActive = true and expiresAt > now.
C1_GrantUniqueness ==
  \A i, j \in DOMAIN permissions :
    (/\ SamePair(permissions[i], permissions[j])
     /\ permissions[i].isActive /\ permissions[i].expiresAt > now
     /\ permissions[j].isActive /\ permissions[j].expiresAt > now) => i = j

\* A pair holds two rows, an approved one and a directly granted one, and
\* just one of them is active and unexpired.
C1_Witness ==
  \E i, j \in DOMAIN permissions :
    /\ i # j
    /\ SamePair(permissions[i], permissions[j])
    /\ permissions[i].grantedBy = "g1"
    /\ permissions[j].grantedBy = "m1"
    /\ permissions[j].isActive /\ permissions[j].expiresAt > now
    /\ ~(permissions[i].isActive /\ permissions[i].expiresAt > now)

\* C3 -- Access decision: the evaluation allows exactly when the target is a
\* DEVELOPER and the actor is a MANAGER, GROUP_HEAD or TEAM_LEAD, or a
\* DEVELOPER holding a row for (actor, project) with isActive = true and
\* expiresAt > now at the time of the call; a developer without such a row
\* gets NoPermission, a non-DEVELOPER target gets InvalidTarget whatever the
\* actor's role, and the call changes no state.
HoldsGrant(u, p) ==
  \E i \in DOMAIN permissions :
    /\ permissions[i].userId = u /\ permissions[i].projectId = p
    /\ permissions[i].isActive /\ permissions[i].expiresAt > now

C3_Expected(u, r, p, tr) ==
  IF tr # "DEVELOPER" THEN "InvalidTarget"
  ELSE IF r \in {"MANAGER", "GROUP_HEAD", "TEAM_LEAD"} THEN "Allowed"
  ELSE IF HoldsGrant(u, p) THEN "Allowed"
  ELSE "NoPermission"

C3_AccessDecision ==
  [][\A u \in Developers, r \in UserRole, p \in Projects,
        tr \in {"DEVELOPER", "TEAM_LEAD"} :
       (response'.op = "evaluate" /\ EvaluateAssignAccess(u, r, p, tr)) =>
         /\ response'.kind = C3_Expected(u, r, p, tr)
         /\ UNCHANGED <<now, grantVars, reportVars>>]_vars

\* One developer holds a live grant and the other a revoked, unexpired one,
\* and the last evaluation answered NoPermission.
C3_Witness ==
  /\ response.op = "evaluate" /\ response.kind = "NoPermission"
  /\ HoldsGrant("d1", "p1")
  /\ ~HoldsGrant("d2", "p1")
  /\ \E i \in DOMAIN permissions :
       /\ permissions[i].userId = "d2"
       /\ ~permissions[i].isActive /\ permissions[i].expiresAt > now

\* C4 -- Self-expiry: from the instant every row of a developer for a
\* project has expiresAt <= now, the evaluation denies that developer for
\* the project, whether or not the rows are still flagged active, that is
\* whether or not the sweep has run, and without any revoke.
C4_SelfExpiry ==
  \A u \in Developers, p \in Projects :
    (\A i \in DOMAIN permissions :
       (permissions[i].userId = u /\ permissions[i].projectId = p)
         => permissions[i].expiresAt <= now)
      => canAssignTaskToUser(u, "DEVELOPER", p, "DEVELOPER") = "NoPermission"

\* Both developers hold a row still flagged active whose expiresAt has
\* passed, no revoke has run, and an evaluation has just denied.
C4_Witness ==
  /\ response.op = "evaluate" /\ response.kind = "NoPermission"
  /\ \A u \in Developers :
       \E i \in DOMAIN permissions : permissions[i].userId = u
  /\ \A i \in DOMAIN permissions :
       permissions[i].isActive /\ permissions[i].expiresAt <= now

\* C6 -- Grant merge: a grant call for a pair that has an active, unexpired
\* row inserts nothing and rewrites that row with the newly computed
\* expiresAt (the custom date, or now plus the duration, 7 days when
\* omitted, also when that is earlier than before), the new grantedBy and
\* the new reason; the pair then has exactly one active (isActive and
\* unexpired) row.
C6_Expiry(e) ==
  IF e.customExpiryDate # NoDate THEN e.customExpiryDate
  ELSE now + TicksPerDay * (IF e.durationDays = 0 THEN 7 ELSE e.durationDays)

C6_GrantMerge ==
  [][\A g \in {Manager, GroupHead}, u \in Developers, p \in Projects,
        e \in MergeExpiries, i \in DOMAIN permissions :
       (/\ response'.op = "grant"
        /\ permissions[i].userId = u /\ permissions[i].projectId = p
        /\ permissions[i].isActive /\ permissions[i].expiresAt > now
        /\ grantTemporaryPermission(g.id, u, p, e.durationDays,
                                    e.customExpiryDate, g.reason))
       =>
        /\ Len(permissions') = Len(permissions)
        /\ permissions'[i] =
             [permissions[i] EXCEPT !.expiresAt = C6_Expiry(e),
                                    !.grantedBy = g.id, !.reason = g.reason]
        /\ \A j \in DOMAIN permissions \ {i} : permissions'[j] = permissions[j]
        /\ Cardinality({j \in DOMAIN permissions' :
                          /\ permissions'[j].userId = u
                          /\ permissions'[j].projectId = p
                          /\ permissions'[j].isActive
                          /\ permissions'[j].expiresAt > now}) = 1]_vars

\* A grant call has just updated a row, to an expiry one instant ahead, on
\* behalf of the second grantor.
C6_Witness ==
  /\ response.op = "grant" /\ response.kind = "Updated"
  /\ \E i \in DOMAIN permissions :
       /\ permissions[i].expiresAt = now + 1
       /\ permissions[i].grantedBy = "g1"
       /\ permissions[i].reason = "r2"

\* C7 -- Expiry monotonicity: a row the expiry sweep has deactivated (the
\* sweep sent its PERMISSION_EXPIRED notice) is never active again, whatever
\* revoke, approval, warner, sweep or grant calls follow.
SweptAway(i) ==
  \E n \in BagToSet(notifications) :
    n.type = "PERMISSION_EXPIRED" /\ n.relatedId = i

C7_ExpiryMonotonicity ==
  \A i \in DOMAIN permissions :
    SweptAway(i) => (~permissions[i].isActive /\ permissions[i].expiresAt <= now)

\* A swept row has since been revoked as well, and a later grant has given
\* its holder a second, live row.
C7_Witness ==
  \E i, j \in DOMAIN permissions :
    /\ SweptAway(i)
    /\ \E n \in BagToSet(notifications) :
         n.type = "PERMISSION_REVOKED" /\ n.relatedId = i
    /\ i # j
    /\ SamePair(permissions[i], permissions[j])
    /\ permissions[j].isActive /\ permissions[j].expiresAt > now

\* C2 -- Finality: once a report has isFinal = true, no draft save, submit,
\* scheduled-submission sweep, end-of-day forcing or finalization changes
\* any field of it or any of its EODTask rows.
C2_Finality ==
  [][\A i \in DOMAIN reports :
       reports[i].isFinal =>
         /\ i \in DOMAIN reports'
         /\ reports'[i] = reports[i]
         /\ {r \in eodTasks' : r.eodReportId = i}
              = {r \in eodTasks : r.eodReportId = i}]_vars

\* A final report with task rows exists, the same user has a newer report
\* with task rows of its own, and a draft save has just succeeded.
C2_Witness ==
  /\ response.op = "draft" /\ response.kind = "OK"
  /\ \E i, j \in DOMAIN reports :
       /\ reports[i].isFinal /\ ~reports[j].isFinal
       /\ reports[i].userId = reports[j].userId
       /\ \E r \in eodTasks : r.eodReportId = i
       /\ \E r \in eodTasks : r.eodReportId = j

\* C5 -- Report uniqueness: whatever draft saves and submits have run,
\* repeated on one day or submitting with no draft before, no user has two
\* reports for one day.
C5_ReportUniqueness ==
  \A i, j \in DOMAIN reports :
    (/\ reports[i].userId = reports[j].userId
     /\ reports[i].reportDate \div TicksPerDay
          = reports[j].reportDate \div TicksPerDay) => i = j

\* Past the first instant of a day, a draft save has just succeeded on the
\* day's report, which was submitted at an earlier instant of the day: calls
\* at different times of one day and a single row.
C5_Witness ==
  /\ response.op = "draft" /\ response.kind = "OK"
  /\ now % TicksPerDay # 0
  /\ Len(reports) = 1
  /\ reports[1].reportDate \div TicksPerDay = now \div TicksPerDay
  /\ reports[1].status = "SUBMITTED"
  /\ reports[1].submittedAt < now

\* C9 -- Scheduled promotion: a successful submit with submitNow = false and
\* scheduledSubmitAt = T on a DRAFT report leaves it DRAFT with
\* scheduledSubmitAt = T; a scheduled-submission sweep before T leaves the
\* report unchanged; a sweep at or after T sets status SUBMITTED, sets
\* submittedAt and clears scheduledSubmitAt.
ReportOf(reps, u, t) ==
  {i \in DOMAIN reps : reps[i].userId = u
                         /\ reps[i].reportDate \div TicksPerDay = t \div TicksPerDay}

C9_ScheduledPromotion ==
  [][/\ \A b \in ReportSubmitBodies :
          (/\ response'.kind = "Scheduled"
           /\ \A i \in ReportOf(reports, "d1", now) : reports[i].status = "DRAFT"
           /\ submitEODReport("d1", b))
          => \E i \in ReportOf(reports', "d1", now) :
               /\ reports'[i].status = "DRAFT"
               /\ reports'[i].scheduledSubmitAt = b.scheduledSubmitAt
               /\ reports'[i].submittedAt = NoDate
     /\ response'.op = "sweep" =>
          \A i \in DOMAIN reports :
            IF /\ reports[i].status = "DRAFT"
               /\ reports[i].scheduledSubmitAt # NoDate
               /\ reports[i].scheduledSubmitAt <= now
            THEN /\ reports'[i].status = "SUBMITTED"
                 /\ reports'[i].submittedAt = now
                 /\ reports'[i].scheduledSubmitAt = NoDate
            ELSE reports'[i] = reports[i]]_vars

\* A sweep has just promoted a report while another report, scheduled for a
\* later instant, stays a scheduled DRAFT.
C9_Witness ==
  /\ response.op = "sweep" /\ response.kind = "Submitted"
  /\ \E i, j \in DOMAIN reports :
       /\ reports[i].status = "SUBMITTED" /\ reports[i].submittedAt = now
       /\ reports[i].scheduledSubmitAt = NoDate
       /\ reports[j].status = "DRAFT" /\ reports[j].scheduledSubmitAt > now

\* C8 -- End-of-day guarantee: with the forcer fired at 23:59 of every day
\* and users saving drafts at any moment, every report dated day D is
\* SUBMITTED once D has closed.
C8_EndOfDayGuarantee ==
  \A i \in DOMAIN reports :
    reports[i].reportDate \div TicksPerDay < now \div TicksPerDay
      => reports[i].status = "SUBMITTED"

\* C10 -- A draft save for the date of a report of the caller that the
\* finalizer has made final fails with ReportFinal and changes nothing.
C10_ReportFinalAfterFinalize ==
  [][\A b \in ReportDraftBodies :
       (/\ response'.op = "draft"
        /\ b.reportDate # NoDate
        /\ \E i \in ReportOf(reports, "d1", b.reportDate) : reports[i].isFinal
        /\ createOrUpdateEODReport("d1", b))
       => (response'.kind = "ReportFinal" /\ UNCHANGED reportVars)]_vars

\* C11 -- Pending-request uniqueness: whatever requests and reviews have
\* run, a (requestedBy, projectId) pair has at most one PENDING request, and
\* a request made while one is PENDING for the pair fails with
\* AlreadyPending and inserts nothing.
C11_PendingUniqueness ==
  [][/\ \A i, j \in DOMAIN requests' :
          (/\ requests'[i].requestedBy = requests'[j].requestedBy
           /\ requests'[i].projectId = requests'[j].projectId
           /\ requests'[i].status = "PENDING"
           /\ requests'[j].status = "PENDING") => i = j
     /\ \A u \in Developers, p \in Projects :
          (/\ response'.op = "request"
           /\ \E i \in DOMAIN requests :
                /\ requests[i].requestedBy = u /\ requests[i].projectId = p
                /\ requests[i].status = "PENDING"
           /\ createPermissionRequest(u, p, 1, "r1"))
          => (response'.kind = "AlreadyPending" /\ requests' = requests)]_vars

\* A request has just been refused as AlreadyPending while the pair holds a
\* reviewed request and a PENDING one made after it.
C11_Witness ==
  /\ response.op = "request" /\ response.kind = "AlreadyPending"
  /\ Len(requests) = 2
  /\ requests[1].status # "PENDING" /\ requests[2].status = "PENDING"
  /\ requests[1].requestedBy = requests[2].requestedBy

\* C12 -- Review is terminal: a review of a request that is not PENDING
\* fails with AlreadyReviewed and leaves the request table and the grant
\* table unchanged (a step with any other outcome is not such a review);
\* no step changes a request that has left PENDING.
C12_ReviewTerminal ==
  [][/\ \A id \in DOMAIN requests, st \in {"APPROVED", "REJECTED"},
          n \in {None, "n1"} :
          (/\ response'.op = "review"
           /\ requests[id].status # "PENDING"
           /\ ~(/\ response'.kind = "AlreadyReviewed"
                /\ requests' = requests
                /\ permissions' = permissions))
          => ~reviewPermissionRequest("g1", id, st, n)
     /\ \A id \in DOMAIN requests :
          requests[id].status # "PENDING" => requests'[id] = requests[id]]_vars

\* A review has just been refused as AlreadyReviewed on a request that was
\* rejected with notes, while the requester holds no grant.
C12_Witness ==
  /\ response.op = "review" /\ response.kind = "AlreadyReviewed"
  /\ \E id \in DOMAIN requests :
       /\ requests[id].status = "REJECTED"
       /\ requests[id].reviewNotes = "n1"
  /\ \A id \in DOMAIN requests : requests[id].status # "PENDING"
  /\ permissions = <<>>

\* C13 -- Approval creates the grant: a successful APPROVED review inserts
\* a row for (requester, project) with isActive = true and expiresAt = now +
\* requestedDurationDays exactly when the pair has no active, unexpired row;
\* otherwise it inserts nothing and leaves every row unchanged; REJECTED
\* never touches the grant table; both set reviewedBy and reviewedAt.
LiveRows(u, p) ==
  {i \in DOMAIN permissions :
     /\ permissions[i].userId = u /\ permissions[i].projectId = p
     /\ permissions[i].isActive /\ permissions[i].expiresAt > now}

C13_ApprovalCreatesGrant ==
  [][\A id \in DOMAIN requests, st \in {"APPROVED", "REJECTED"},
        n \in {None, "n1"} :
       (/\ response'.op = "review"
        /\ requests[id].status = "PENDING"
        /\ reviewPermissionRequest("g1", id, st, n))
       =>
        /\ response'.kind = st
        /\ requests'[id].status = st
        /\ requests'[id].reviewedBy = "g1"
        /\ requests'[id].reviewedAt = now
        /\ IF st = "APPROVED"
              /\ LiveRows(requests[id].requestedBy, requests[id].projectId) = {}
           THEN /\ Len(permissions') = Len(permissions) + 1
                /\ \A i \in DOMAIN permissions : permissions'[i] = permissions[i]
                /\ permissions'[Len(permissions')].userId = requests[id].requestedBy
                /\ permissions'[Len(permissions')].projectId = requests[id].projectId
                /\ permissions'[Len(permissions')].isActive
                /\ permissions'[Len(permissions')].expiresAt
                     = now + requests[id].requestedDurationDays * TicksPerDay
           ELSE permissions' = permissions]_vars

\* An approval has just succeeded while the requester's only rows were
\* granted directly, one of them live: nothing was inserted.
C13_Witness ==
  /\ response.op = "review" /\ response.kind = "APPROVED"
  /\ \E id \in DOMAIN requests :
       requests[id].status = "APPROVED" /\ requests[id].reviewedAt = now
  /\ permissions # <<>>
  /\ \A i \in DOMAIN permissions : permissions[i].grantedBy = "m1"
  /\ \E i \in DOMAIN permissions :
       permissions[i].isActive /\ permissions[i].expiresAt > now

\* The EODTask rows of report i.
TasksOf(rows, i) == {r \in rows : r.eodReportId = i}

CountsMatch(reps, rows, i) ==
  /\ reps[i].tasksCompleted
       = Cardinality({r \in TasksOf(rows, i) : r.status = "COMPLETED"})
  /\ reps[i].tasksInProgress
       = Cardinality({r \in TasksOf(rows, i) : r.status = "IN_PROGRESS"})

\* C14 -- Task counters: after every successful draft save or submit the
\* report of the day has tasksCompleted equal to the number of its COMPLETED
\* EODTask rows and tasksInProgress equal to the number of its IN_PROGRESS
\* rows, however many saves and submits came before.
C14_CountsMatchTasks ==
  (response.op \in {"draft", "submit"} /\ response.kind \in {"OK", "Scheduled"})
  => \A i \in DOMAIN reports :
       reports[i].reportDate = StartOfDay(now) => CountsMatch(reports, eodTasks, i)

\* C15 -- Omitted lists keep the rows: a draft save or a submit on an
\* existing report that supplies neither completedTasks nor inProgressTasks
\* leaves the EODTask rows of that report unchanged.
C15_OmittedListsKeepTasks ==
  [][\A u \in Developers, i \in DOMAIN reports :
       (/\ response'.op \in {"draft", "submit"}
        /\ reports[i].userId = u
        /\ reports[i].reportDate = StartOfDay(now)
        /\ \/ \E b \in DraftBodies({NoDate}, {Absent}, {Absent}, {None, "n1"}) :
                createOrUpdateEODReport(u, b)
           \/ \E b \in SubmitBodies({NoDate}, {Absent}, {Absent}, {None},
                                    {SubmitNow, ScheduleAt(now + 1)}) :
                submitEODReport(u, b))
       => TasksOf(eodTasks', i) = TasksOf(eodTasks, i)]_vars

\* C16 -- Closed days stay closed: once day D has ended, no draft save and
\* no submit changes a field or an EODTask row of a report dated D, final
\* or not, and a call that names date D fails with WrongDate.
C16_PastDayFrozen ==
  [][response'.op \in {"draft", "submit"}
     => /\ \A i \in DOMAIN reports :
             reports[i].reportDate < StartOfDay(now)
             => /\ i \in DOMAIN reports' /\ reports'[i] = reports[i]
                /\ TasksOf(eodTasks', i) = TasksOf(eodTasks, i)
        /\ (\E b \in ReportDraftBodies \cup ReportSubmitBodies :
              /\ b.reportDate = Yesterday
              /\ \/ b \in ReportDraftBodies /\ createOrUpdateEODReport("d1", b)
                 \/ b \in ReportSubmitBodies /\ submitEODReport("d1", b))
           => (response'.kind = "WrongDate" /\ UNCHANGED reportVars)]_vars

\* A call has just been refused as WrongDate while yesterday's report is
\* still a DRAFT that is not final and has a task row.
C16_Witness ==
  /\ response.kind = "WrongDate"
  /\ \E i \in DOMAIN reports :
       /\ reports[i].reportDate = Yesterday
       /\ reports[i].status = "DRAFT" /\ ~reports[i].isFinal
       /\ TasksOf(eodTasks, i) # {}

\* C17 -- Failed submits are clean: a submit that fails (inaccessible task,
\* schedule missing, not in the future or past the end of the day, or a
\* final report) leaves the EODReport rows, their fields and the EODTask
\* rows as they were.
C17_FailedSubmitClean ==
  [][(/\ response'.op = "submit"
      /\ response'.kind \in {"TaskNotAccessible", "ScheduleRequired",
                             "ScheduleNotFuture", "ScheduleTooLate",
                             "ReportFinal"})
     => UNCHANGED reportVars]_vars

\* C18 -- Task accessibility: a draft save by a developer for today whose
\* lists name a task outside the accessible set fails with
\* TaskNotAccessible naming exactly the offending ids and changes no
\* EODReport or EODTask row; a save whose ids are all accessible is never
\* refused as TaskNotAccessible.
C18_TaskAccessibility ==
  [][\A b \in TaskDraftBodies :
       (response'.op = "draft" /\ createOrUpdateEODReport("d1", b))
       => LET named == {e.taskId : e \in b.completedTasks.items}
                         \cup {e.taskId : e \in b.inProgressTasks.items}
              offending == {k \in named : k \notin getAccessibleTaskIds("d1")}
          IN IF offending # {}
             THEN /\ response'.kind = "TaskNotAccessible"
                  /\ response'.detail = offending
                  /\ UNCHANGED reportVars
             ELSE response'.kind # "TaskNotAccessible"]_vars

\* A save naming k3 has just been refused while the day's report, saved
\* earlier with an accessible task, keeps its row.
C18_Witness ==
  /\ response.op = "draft" /\ response.kind = "TaskNotAccessible"
  /\ response.detail = {"k3"}
  /\ \E i \in DOMAIN reports :
       /\ reports[i].reportDate = StartOfDay(now)
       /\ TasksOf(eodTasks, i) # {}

\* C19 -- Sweep idempotence: a run of processScheduledSubmissions,
\* autoSubmitDraftsAtEndOfDay or finalizeReportsAtMidnight that directly
\* follows a completed run of the same sweep, at the same clock reading and
\* with no user call between, selects no row and changes nothing.
C19_SweepIdempotence ==
  /\ [](response.op = "sweep" => ScheduledReports(reports, now) = {})
  /\ [](response.op = "force"
          => DraftReportsOfDay(reports, StartOfDay(now),
                               AddDays(StartOfDay(now), 1)) = {})
  /\ [](response.op = "finalize"
          => ReportsToFinalize(reports, Yesterday, StartOfDay(now)) = {})
  /\ [][(response.op \in {"sweep", "force", "finalize"}
          /\ response'.op = response.op)
         => (response'.kind = "Nothing" /\ UNCHANGED reportVars)]_vars

\* The finalizer has just run and found nothing, on the day after a report
\* that an earlier run of the same day has made final.
C19_Witness ==
  /\ response.op = "finalize" /\ response.kind = "Nothing"
  /\ \E i \in DOMAIN reports :
       reports[i].isFinal /\ reports[i].reportDate = Yesterday

\* The PERMISSION_EXPIRED notices that name grant row i.
ExpiredNotices(notes, i) ==
  BagCardinality([n \in {m \in BagToSet(notes) :
                           m.type = "PERMISSION_EXPIRED" /\ m.relatedId = i}
                    |-> notes[n]])

WarningsOf(notes, i) ==
  {m \in BagToSet(notes) : m.type = "PERMISSION_EXPIRING" /\ m.relatedId = i}

WarningCount(notes, i) ==
  BagCardinality([n \in WarningsOf(notes, i) |-> notes[n]])

\* C21 -- Expiry-warning dedupe: whatever runs of the warner happen, a
\* PERMISSION_EXPIRING notice is created for a grant only by the warner and
\* only while the grant is active with expiresAt at most 3 days after now;
\* no grant has two such notices 24 hours or less apart; notifiedCount is
\* the number of notices the run created.
C21_WarningDedupe ==
  [][/\ \A i \in DOMAIN permissions' :
          /\ \A m, n \in WarningsOf(notifications', i) :
               /\ notifications'[m] = 1
               /\ m # n => (m.createdAt - n.createdAt > TicksPerDay
                            \/ n.createdAt - m.createdAt > TicksPerDay)
          /\ WarningCount(notifications', i) > WarningCount(notifications, i)
             => /\ response'.op = "warn"
                /\ i \in DOMAIN permissions
                /\ permissions[i].isActive
                /\ permissions[i].expiresAt <= now + WarningDays * TicksPerDay
     /\ response'.op = "warn"
        => Cardinality(response'.detail)
             = NoticeCount("PERMISSION_EXPIRING")' - NoticeCount("PERMISSION_EXPIRING")]_vars

\* The warner has just run and created nothing, while a grant expiring
\* within three days carries its one notice of this day and a grant made
\* for the default week carries none.
C21_Witness ==
  /\ response.op = "warn" /\ response.detail = {}
  /\ \E i, j \in DOMAIN permissions :
       /\ permissions[i].isActive /\ WarningCount(notifications, i) = 1
       /\ permissions[j].isActive /\ WarningCount(notifications, j) = 0
       /\ permissions[j].expiresAt > now + WarningDays * TicksPerDay

\* The PERMISSION_GRANTED notices addressed to user u.
GrantedNotices(notes, u) ==
  BagCardinality([n \in {m \in BagToSet(notes) :
                           m.type = "PERMISSION_GRANTED" /\ m.recipientId = u}
                    |-> notes[n]])

\* C24 -- Grant always notifies: every successful grant, whether it inserts
\* a row or updates the live row in place, creates one PERMISSION_GRANTED
\* notice addressed to the grantee.
C24_GrantAlwaysNotifies ==
  [][(response'.op = "grant" /\ response'.kind \in {"Created", "Updated"})
     => GrantedNotices(notifications', "d1")
          = GrantedNotices(notifications, "d1") + 1]_vars

\* C26 -- Revoke idempotence: a revocation of an existing grant succeeds and
\* leaves the table as it was but for isActive = false on that row, so on a
\* row that is already inactive it changes no field of any row.
C26_RevokeIdempotence ==
  [][\A id \in DOMAIN permissions :
       (response'.op = "revoke" /\ revokeTemporaryPermission("m1", id))
       => /\ response'.kind = "OK"
          /\ permissions' = [permissions EXCEPT ![id].isActive = FALSE]
          /\ ~permissions[id].isActive => permissions' = permissions]_vars

\* A revocation has just succeeded on a row that the expiry sweep had
\* deactivated before.
C26_Witness ==
  /\ response.op = "revoke" /\ response.kind = "OK"
  /\ \E id \in DOMAIN permissions :
       /\ ~permissions[id].isActive
       /\ ExpiredNotices(notifications, id) = 1
       /\ \E n \in BagToSet(notifications) :
            n.type = "PERMISSION_REVOKED" /\ n.relatedId = id

\* C27 -- Authorization precedes mutation: a grant, a revocation or a review
\* by a caller who is neither MANAGER nor GROUP_HEAD, and a request by a
\* caller who is not a DEVELOPER, is refused as Forbidden, creates no
\* notification and changes no grant or request row.
C27_AuthorizationFirst ==
  [][(/\ response'.op \in {"grant", "revoke", "review", "request"}
      /\ \/ GrantStep({TeamLead}, {"d1"}, {Custom(now + 1)})
         \/ RevokeStep({"d2"})
         \/ ReviewStep({"t1"}, {"APPROVED"}, {None})
         \/ RequestStep({"m1"}))
     => (response'.kind = "Forbidden" /\ UNCHANGED grantVars)]_vars

\* A team lead's review has just been refused while a request is PENDING
\* and the requester has no grant.
C27_Witness ==
  /\ response.op = "review" /\ response.kind = "Forbidden"
  /\ \E id \in DOMAIN requests : requests[id].status = "PENDING"
  /\ permissions = <<>>

\* C30 -- Requests under a grant: a request by a developer who holds an
\* active, unexpired grant for the project fails with AlreadyGranted, inserts
\* no request and sends no notification.
C30_AlreadyGranted ==
  [][\A u \in Developers, p \in Projects :
       (/\ response'.op = "request"
        /\ LiveRows(u, p) # {}
        /\ createPermissionRequest(u, p, 1, "r1"))
       => /\ response'.kind = "AlreadyGranted"
          /\ requests' = requests
          /\ notifications' = notifications]_vars

\* C30 amended -- such a request fails with AlreadyPending when the pair
\* has a PENDING request and with AlreadyGranted otherwise, inserts no
\* request and sends no notification either way; a request of a pair with
\* neither is created; no step adds a PENDING request for a pair that a
\* live grant covers.
C30_RefusedUnderGrant ==
  [][/\ \A u \in Developers, p \in Projects :
          (response'.op = "request" /\ createPermissionRequest(u, p, 1, "r1"))
          => LET pending == \E i \in DOMAIN requests :
                              /\ requests[i].requestedBy = u
                              /\ requests[i].projectId = p
                              /\ requests[i].status = "PENDING"
             IN IF LiveRows(u, p) # {}
                THEN /\ response'.kind = IF pending THEN "AlreadyPending"
                                         ELSE "AlreadyGranted"
                     /\ requests' = requests
                     /\ notifications' = notifications
                ELSE pending \/ response'.kind = "Created"
     /\ Len(requests') > Len(requests)
        => LiveRows(requests'[Len(requests')].requestedBy,
                    requests'[Len(requests')].projectId) = {}]_vars

\* A request has just been refused as AlreadyGranted: the developer holds a
\* live grant and every earlier request of the pair is reviewed.
C30_Witness ==
  /\ response.op = "request" /\ response.kind = "AlreadyGranted"
  /\ LiveRows("d1", "p1") # {}
  /\ requests # <<>>
  /\ \A i \in DOMAIN requests : requests[i].status # "PENDING"

\* The row that report i holds for entry e of a list, if the call wrote it.
RowFor(rows, i, e, status, progress) ==
  \E r \in TasksOf(rows, i) :
    r.taskId = e.taskId /\ r.status = status /\ r.progress = progress

\* C28 -- Progress bound: in every state an IN_PROGRESS EODTask row has an
\* integer progress in 0..100 and a COMPLETED row has progress 100; a
\* successful save or submit writes 100 for a completed entry whatever
\* progress it carried, and 0 for an in-progress entry that carried none.
C28_ProgressBound ==
  /\ [](\A r \in eodTasks :
          /\ r.status = "IN_PROGRESS" => r.progress \in 0..100
          /\ r.status = "COMPLETED" => r.progress = 100)
  /\ [][\A i \in DOMAIN reports' :
          (/\ response'.op \in {"draft", "submit"}
           /\ response'.kind = "OK"
           /\ reports'[i].reportDate = StartOfDay(now))
          => \A b \in ProgressDraftBodies \cup ProgressSubmitBodies :
               (\/ b \in ProgressDraftBodies /\ createOrUpdateEODReport("d1", b)
                \/ b \in ProgressSubmitBodies /\ submitEODReport("d1", b))
               => /\ \A e \in b.completedTasks.items :
                       RowFor(eodTasks', i, e, "COMPLETED", 100)
                  /\ \A e \in b.inProgressTasks.items :
                       RowFor(eodTasks', i, e, "IN_PROGRESS",
                              IF e.progress = NoProgress THEN 0
                              ELSE e.progress)]_vars

\* A report holds a COMPLETED row at 100 for an entry that carried 40 and an
\* IN_PROGRESS row at 0 for an entry that carried no progress, and a body
\* with a progress above 100 has just been refused.
C28_Witness ==
  /\ response.kind = "ValidationError"
  /\ \E i \in DOMAIN reports :
       /\ RowFor(eodTasks, i, [taskId |-> "k1"], "COMPLETED", 100)
       /\ RowFor(eodTasks, i, [taskId |-> "k2"], "IN_PROGRESS", 0)

\* C29 -- Notification failures are isolated: while the notification sink
\* fails, a request, review, grant or revocation never answers with an
\* error for it; a valid call reports its success and the row it inserted
\* or changed is in the table after the call.
C29_NotificationIsolated ==
  [][(faults.sink /\ response'.op \in {"grant", "revoke", "request", "review"})
     => /\ response'.kind # "Error"
        /\ response'.op = "grant"
           => /\ response'.kind \in {"Created", "Updated"}
              /\ LET i == IF response'.kind = "Created"
                          THEN Len(permissions) + 1
                          ELSE CHOOSE j \in LiveRows("d1", "p1") : TRUE
                 IN /\ i \in DOMAIN permissions'
                    /\ permissions'[i].isActive
                    /\ permissions'[i].expiresAt = now + 1
        /\ \A id \in DOMAIN permissions :
             revokeTemporaryPermission("m1", id)
             => response'.kind = "OK" /\ ~permissions'[id].isActive
        /\ response'.op = "request"
           => \/ response'.kind \in {"AlreadyPending", "AlreadyGranted"}
              \/ /\ response'.kind = "Created"
                 /\ Len(requests') = Len(requests) + 1
                 /\ requests'[Len(requests')].status = "PENDING"
        /\ \A id \in DOMAIN requests, st \in {"APPROVED", "REJECTED"} :
             (/\ response'.op = "review"
              /\ requests[id].status = "PENDING"
              /\ reviewPermissionRequest("g1", id, st, None))
             => /\ response'.kind = st
                /\ requests'[id].status = st
                /\ (st = "APPROVED" /\ LiveRows("d1", "p1") = {})
                   => Len(permissions') = Len(permissions) + 1]_vars

\* An approval has just succeeded and inserted the grant although no
\* notification has ever been delivered.
C29_Witness ==
  /\ faults.sink
  /\ response.op = "review" /\ response.kind = "APPROVED"
  /\ notifications = EmptyBag
  /\ \E i \in DOMAIN permissions :
       permissions[i].grantedBy = "g1" /\ permissions[i].isActive

\* C25 -- Partial-failure tolerance of the sweeps: a failure on one selected
\* row is never raised to the scheduler and does not keep the other
\* selected rows from being processed in the same run.
C25_SweepsTolerateFailure ==
  [][/\ response'.op = "sweep"
        => \A i \in ScheduledReports(reports, now) \ faults.saves :
             reports'[i].status = "SUBMITTED"
     /\ response'.op = "force"
        => \A i \in DraftReportsOfDay(reports, StartOfDay(now),
                                      AddDays(StartOfDay(now), 1)) \ faults.saves :
             reports'[i].status = "SUBMITTED"
     /\ response'.op = "finalize"
        => \A i \in ReportsToFinalize(reports, Yesterday, StartOfDay(now))
                      \ faults.saves :
             reports'[i].isFinal
     /\ response'.op = "expire"
        => \A i \in ExpiredPermissions(permissions, now) :
             ~permissions'[i].isActive
     /\ response'.op \in {"sweep", "force", "finalize", "expire", "warn"}
        => response'.kind # "Thrown"]_vars

\* C22 -- Sweeper/revoke race: however the steps of the expiry job and of a
\* revocation interleave on the same expired, still-active grant, both
\* complete with success and the grant ends inactive, otherwise unchanged,
\* as it does when one runs after the other.
C22_SweeperRevokeRace ==
  [][/\ \A c \in calls \ calls' :
          /\ c.op = "revoke" /\ c.pc = "notify"
             => /\ ~permissions'[c.id].isActive
                /\ response' = [op |-> "revoke", kind |-> "OK", detail |-> {}]
          /\ c.op = "expire" /\ c.left = {}
             => /\ \A i \in c.rows : ~permissions'[i].isActive
                /\ response'.op = "expire"
                /\ response'.kind \in {"Expired", "Nothing"}
     /\ response'.op # "grant"
        => \A i \in DOMAIN permissions :
             /\ permissions'[i] \in {permissions[i], Revoked(permissions[i])}
             /\ ~permissions[i].isActive => ~permissions'[i].isActive]_vars

\* The job has loaded an expired grant and not yet written, and a
\* revocation of that grant has meanwhile gone through.
C22_Witness ==
  \E c \in InFlight("expire") : \E i \in c.rows :
     /\ ~permissions[i].isActive
     /\ response.op = "revoke" /\ response.kind = "OK"
     /\ \E n \in BagToSet(notifications) :
          n.type = "PERMISSION_REVOKED" /\ n.relatedId = i

\* C23 -- No duplicate active grant under race: when two grants, or a grant
\* and an approval, for the same (userId, projectId) run at the same time,
\* each with its lookup and its write as separate steps, the pair still has
\* at most one row with isActive = true and expiresAt > now.
C23_NoDuplicateUnderRace ==
  \A u \in Users, p \in Projects : Cardinality(LiveRows(u, p)) <= 1

\* C31 -- Grant expiry is always in the future: a successful grant leaves
\* the granted row expiring strictly after the call, at now + durationDays
\* (7 when omitted) or at the custom date given; a call whose custom date
\* is not strictly in the future fails with InvalidExpiry and neither
\* inserts nor updates a row.
C31_Expected(e) ==
  IF e.customExpiryDate # NoDate THEN e.customExpiryDate
  ELSE now + TicksPerDay * (IF e.durationDays = 0 THEN DefaultDurationDays
                            ELSE e.durationDays)

C31_ExpiryInFuture ==
  [][\A e \in FutureExpiries :
       (/\ response'.op = "grant"
        /\ grantTemporaryPermission("m1", "d1", "p1", e.durationDays,
                                    e.customExpiryDate, "r1"))
       =>
        IF C31_Expected(e) <= now
        THEN /\ response'.kind = "InvalidExpiry"
             /\ permissions' = permissions
             /\ notifications' = notifications
        ELSE /\ response'.kind \in {"Created", "Updated"}
             /\ \E i \in DOMAIN permissions' :
                  /\ permissions'[i].userId = "d1" /\ permissions'[i].isActive
                  /\ permissions'[i].expiresAt = C31_Expected(e)
             /\ \A i \in DOMAIN permissions' :
                  (i \notin DOMAIN permissions \/ permissions'[i] # permissions[i])
                  => permissions'[i].expiresAt > now]_vars

\* A grant with a custom date equal to the instant of the call has just
\* been refused while the developer held a live grant.
C31_Witness ==
  /\ response.op = "grant" /\ response.kind = "InvalidExpiry"
  /\ now > 0
  /\ \E i \in DOMAIN permissions :
       permissions[i].isActive /\ permissions[i].expiresAt > now

\* C32 -- One-way report lifecycle: under every sequence of user calls and
\* sweeps a report only advances along DRAFT, SUBMITTED, FINAL: status
\* never returns from SUBMITTED to DRAFT, isFinal never returns from true
\* to false, isFinal holds only on SUBMITTED reports, and submittedAt is set
\* exactly on SUBMITTED reports.
C32_OneWayLifecycle ==
  /\ [](\A i \in DOMAIN reports :
          /\ reports[i].status \in {"DRAFT", "SUBMITTED"}
          /\ reports[i].isFinal => reports[i].status = "SUBMITTED"
          /\ (reports[i].submittedAt # NoDate) <=> (reports[i].status = "SUBMITTED"))
  /\ [][\A i \in DOMAIN reports :
          /\ i \in DOMAIN reports'
          /\ reports[i].status = "SUBMITTED" => reports'[i].status = "SUBMITTED"
          /\ reports[i].isFinal => reports'[i].isFinal]_vars

\* One user holds a sealed report of the day before, submitted then, and
\* a submitted, unsealed one of today that was saved again after its
\* submission.
C32_Witness ==
  /\ response.op = "draft" /\ response.kind = "OK"
  /\ \E i, j \in DOMAIN reports :
       /\ reports[i].userId = reports[j].userId
       /\ reports[i].isFinal /\ reports[i].submittedAt < StartOfDay(now)
       /\ reports[j].reportDate = StartOfDay(now)
       /\ reports[j].status = "SUBMITTED" /\ ~reports[j].isFinal

\* C33 -- A pending schedule exists only on drafts: every report with
\* scheduledSubmitAt set has status DRAFT, that is, every SUBMITTED report
\* has scheduledSubmitAt cleared, also after a scheduled submit on a report
\* already submitted earlier the same day.
C33_ScheduleOnlyOnDrafts ==
  \A i \in DOMAIN reports :
    reports[i].scheduledSubmitAt # NoDate => reports[i].status = "DRAFT"

\* C34 -- Every report is eventually sealed: with the three report jobs
\* fired on schedule and users saving or submitting at any time of the day,
\* every report ends with isFinal = true. The midnight job of the day after
\* a report's date is the only run whose query selects the report, so the
\* report is sealed once that run is over.
C34_EventuallySealed ==
  \A i \in DOMAIN reports :
    (\/ AddDays(reports[i].reportDate, 1) < now
     \/ AddDays(reports[i].reportDate, 1) = now /\ "finalize" \in cronRan)
    => reports[i].isFinal

\* C35 -- Sweeps do not conflict with concurrent user edits: when a draft
\* save or a submit, its read and its write being separate steps,
\* interleaves with a report sweep on the same report, the user's later
\* write never undoes the sweep's transition (status does not return to
\* DRAFT, isFinal does not return to false) and no user write lands on the
\* report once isFinal is true.
C35_SweepsKeepTheirEffect ==
  [][\A i \in DOMAIN reports :
       /\ reports[i].status = "SUBMITTED" => reports'[i].status = "SUBMITTED"
       /\ reports[i].isFinal => reports'[i].isFinal
       /\ (reports[i].isFinal /\ response'.op \in {"draft", "submit"})
          => /\ reports'[i] = reports[i]
             /\ {r \in eodTasks' : r.eodReportId = i}
                  = {r \in eodTasks : r.eodReportId = i}]_vars

\* C36 -- Concurrent reviews of one request: when an approve and a reject
\* of the same PENDING request run at the same time, each one's read of the
\* status and its write being separate steps, at most one of them takes
\* effect, and once both are over a grant created by approval exists only
\* if the request's status is APPROVED.
C36_OneReviewTakesEffect ==
  /\ [](calls = {}
        => \A i \in DOMAIN permissions :
             \E id \in DOMAIN requests :
               /\ requests[id].status = "APPROVED"
               /\ requests[id].requestedBy = permissions[i].userId
               /\ requests[id].reviewedBy = permissions[i].grantedBy)
  /\ [][\A id \in DOMAIN requests :
          requests[id].status # "PENDING"
          => requests'[id].status = requests[id].status]_vars

\* C37 -- Submit without a prior draft: a submit with submitNow = true for
\* today by a user with no report for today leaves exactly one report for
\* (user, today), SUBMITTED, with submittedAt set and scheduledSubmitAt
\* cleared; when a report for today exists, the submit promotes that very
\* row and creates no other.
C37_Todays(reps) ==
  {i \in DOMAIN reps :
     /\ reps[i].userId = "d1"
     /\ reps[i].reportDate \div TicksPerDay = now \div TicksPerDay}

C37_SubmitWithoutDraft ==
  [][\A b \in ReportSubmitBodies :
       (/\ response'.op = "submit"
        /\ b.submitNow /\ b.reportDate = NoDate
        /\ submitEODReport("d1", b))
       =>
        /\ response'.kind = "OK"
        /\ Cardinality(C37_Todays(reports')) = 1
        /\ \A i \in C37_Todays(reports') :
             /\ reports'[i].status = "SUBMITTED"
             /\ reports'[i].submittedAt = now
             /\ reports'[i].scheduledSubmitAt = NoDate
        /\ IF C37_Todays(reports) = {}
           THEN Len(reports') = Len(reports) + 1
           ELSE /\ Len(reports') = Len(reports)
                /\ C37_Todays(reports') = C37_Todays(reports)
        /\ \A i \in DOMAIN reports \ C37_Todays(reports) :
             reports'[i] = reports[i]]_vars

\* A submit has just succeeded on the second day: the user's report of the
\* first day is sealed, and today's report, the only other row, is
\* SUBMITTED as of now and carries no task rows.
C37_Witness ==
  /\ response.op = "submit" /\ response.kind = "OK"
  /\ Len(reports) = 2
  /\ reports[1].isFinal /\ reports[1].reportDate < StartOfDay(now)
  /\ reports[2].reportDate = StartOfDay(now)
  /\ reports[2].status = "SUBMITTED" /\ reports[2].submittedAt = now
  /\ {r \in eodTasks : r.eodReportId = 2} = {}

\* C38 -- EOD reminders are idempotent per day: over any number of runs of
\* the reminder job on one day each developer gets at most one EOD_REMINDER
\* notification for that day, and a run never sends one to a developer who
\* has a SUBMITTED report for today when it runs.
C38_RemindersOf(notes, u, day) ==
  {n \in BagToSet(notes) : /\ n.type = "EOD_REMINDER"
                           /\ n.recipientId = u
                           /\ n.createdAt \div TicksPerDay = day}

C38_ReminderCount(notes, u, day) ==
  BagCardinality([n \in C38_RemindersOf(notes, u, day) |-> notes[n]])

C38_OneReminderPerDay ==
  /\ [](\A u \in Users, day \in 0..(MaxTime \div TicksPerDay) :
          C38_ReminderCount(notifications, u, day) <= 1)
  /\ [][response'.op = "remind"
        => \A u \in Users :
             (\/ RoleOf(u) # "DEVELOPER"
              \/ \E i \in DOMAIN reports :
                   /\ reports[i].userId = u
                   /\ reports[i].reportDate = StartOfDay(now)
                   /\ reports[i].status = "SUBMITTED")
             => /\ u \notin response'.detail
                /\ C38_ReminderCount(notifications', u, now \div TicksPerDay)
                     = C38_ReminderCount(notifications, u, now \div TicksPerDay)]_vars

\* A run has just sent nothing: one developer was reminded earlier today
\* and still has only a draft, the other has submitted and holds no
\* reminder.
C38_Witness ==
  /\ response.op = "remind" /\ response.kind = "OK" /\ response.detail = {}
  /\ now % TicksPerDay # 0
  /\ \E u, v \in Developers :
       /\ C38_ReminderCount(notifications, u, now \div TicksPerDay) = 1
       /\ \E n \in C38_RemindersOf(notifications, u, now \div TicksPerDay) :
            n.createdAt < now
       /\ \E i \in DOMAIN reports :
            /\ reports[i].userId = u /\ reports[i].reportDate = StartOfDay(now)
            /\ reports[i].status = "DRAFT"
       /\ C38_ReminderCount(notifications, v, now \div TicksPerDay) = 0
       /\ \E i \in DOMAIN reports :
            /\ reports[i].userId = v /\ reports[i].reportDate = StartOfDay(now)
            /\ reports[i].status = "SUBMITTED"
====
